---- MODULE Spec2Model ----
(***************************************************************************)
(* A model of mongo-wizard: the collection copy engine                     *)
(* (mongo_wizard/core.py), the storage backends (mongo_wizard/storage.py)  *)
(* and the backup manager (mongo_wizard/backup.py).                        *)
(*                                                                         *)
(* Documents are identified by their _id (a small integer), indexes by a   *)
(* small integer; collections are sets of ids.  External programs          *)
(* (mongodump, mongorestore, scp, the FTP server, the user at the prompt)  *)
(* are nondeterministic: every outcome they can produce is explored.       *)
(***************************************************************************)
EXTENDS Integers, Sequences, FiniteSets, TLC

\* ------------------------------------------------------------------ bounds
\* Largest document id; source collections hold the ids 1..n, n <= MaxId.
MaxId == 2
\* Largest index number (the _id_ index is implicit and not numbered).
MaxIdx == 2
\* Largest batch_size a caller passes.
MaxBatch == 2
\* Largest file size, in bytes, of an uploaded archive.
MaxSize == 3
\* Largest document count of a collection of a backed-up database.
MaxCount == 1
\* How far from the checksum threshold the verified collections' counts go.
MaxOver == 2
\* Number of paths of a storage location.
MaxPath == 2
\* Largest number of delete calls made on a storage location.
MaxDeletes == 2
\* Largest number of mutating calls made on a SettingsManager.
MaxOps == 2
\* longest selection string handed to parse_collection_selection
MaxSel == 4
\* largest max_value handed to parse_collection_selection
MaxValue == 3
\* chunks of output the dump process has to write
MaxChunks == 3
\* chunks the pipe between the two processes holds
MaxPipe == 2

Ids == 1 .. MaxId
Idxs == 1 .. MaxIdx

\* What the user at a rich Confirm.ask prompt can do: accept, decline, or
\* not be there at all (end of input: the prompt raises).
Answers == {"yes", "no", "eof"}

NoResult == [documents_copied |-> -1, indexes_created |-> -1,
             source_count |-> -1, method |-> "none"]

\* The databases and collections of the backup model.
DbNames == {"shop", "shop_restored"}
Colls == {"a", "b"}
Counts == -1 .. MaxCount
NoColls == [c \in Colls |-> -1]

\* A gzip-compressed tar archive, or the directory tree it packs:
\*   kind "nofile":  there is no file (no directory)
\*   kind "corrupt": a file tarfile cannot open
\*   kind "nodump":  an archive without a top-level dump directory
\*   kind "dump":    dump/, holding the directory of database db with one
\*                   .bson file per collection (db "none": dump/ is empty)
NoFile == [kind |-> "nofile", db |-> "none", colls |-> NoColls]
Corrupt == [kind |-> "corrupt", db |-> "none", colls |-> NoColls]
NoDumpDir == [kind |-> "nodump", db |-> "none", colls |-> NoColls]
EmptyDump == [kind |-> "dump", db |-> "none", colls |-> NoColls]
DumpOf(db, cs) == [kind |-> "dump", db |-> db, colls |-> cs]

NoReport == [source_count |-> -1, target_count |-> -1, count_match |-> FALSE,
             source_indexes |-> -1, target_indexes |-> -1,
             index_match |-> FALSE, sample_match |-> FALSE,
             checksum_match |-> "none"]

NoBResult == [success |-> FALSE, error |-> "none"]
Failure(e) == [success |-> FALSE, error |-> e]
Success == [success |-> TRUE, error |-> ""]

VARIABLES
    \* ---- the two collections of one copy_collection_with_indexes call
    srcDocs,        \* ids of the documents of the source collection
    srcIdx,         \* the source's indexes besides _id_
    tgtDocs,        \* ids of the documents of the target collection
    tgtIdx,         \* the target's indexes besides _id_
    tgtExists,      \* the target collection exists on the server
    \* ---- the host and the call's arguments
    hasDump,        \* shutil.which('mongodump') finds the binary
    hasRestore,     \* shutil.which('mongorestore') finds the binary
    drop_target,
    force,
    force_python,
    batch_size,
    \* ---- the call's locals and position
    pc,
    total_docs,
    cursor,         \* number of source documents the find() cursor has yielded
    batch,          \* the ids buffered in batch
    copied,
    indexes_created,
    result,         \* the returned dict, NoResult while none is returned
    \* ---- what the call has done so far (history)
    asked,          \* the answers given to Confirm.ask, in order
    drops,          \* number of target_collection.drop() calls
    spawned,        \* number of external processes started
    dumpExit,       \* exit status of the dump process, -1 if never run
    restoreExit,    \* exit status of the restore process, -1 if never run
    inserts,        \* number of insert_many calls issued
    tgtDocs0,       \* the target's documents when the call started
    tgtIdx0,        \* the target's indexes when the call started
    \* ---- copy_indexes: its locals, and the indexes handed to create_index
    idxTodo,        \* the part of `indexes` the for loop has not reached
    created,
    idxTried,       \* the indexes create_index was called with
    idxFailed,      \* the indexes create_index raised for
    \* ---- the insert_many calls of the driver copy (history)
    insertErrors,   \* number of insert_many calls that raised
    lastBatch,      \* the batch handed to the latest insert_many call
    tgtBefore,      \* the target's documents just before that call
    \* ---- one StorageBackend.upload(local_path, remote_path) call
    upBackend,      \* "none", "local", "paramiko", "scp" or "ftp"
    upLocalSize,    \* os.path.getsize(local_path)
    upRemoteSize,   \* size of the file at remote_path, -1 when there is none
    upCmdOk,        \* the transfer command itself reported success
    upSizeRead,     \* "notread", "ok" or "unreadable": the size check's input
    upResult,       \* "none", "success" or "failure"
    \* ---- the MongoDB server and the storage location of a BackupManager
    mongo,          \* database -> collection -> document count, -1: absent
    storageFile,    \* the archive at the backup's storage path
    \* ---- one backup_database or restore_database call
    bop,            \* "none", "backup" or "restore"
    bpc,            \* position in the call
    bDb,            \* backup: the database argument
    bColls,         \* backup: the collections argument, <<>> for None
    bTarget,        \* restore: target_database, "none" for None
    bDrop,          \* restore: drop_target
    openConns,      \* MongoClient connections the call opened and not closed
    tempDir,        \* the scratch directory exists
    bTodo,          \* backup: the mongodump runs still to do
    dumpDir,        \* backup: temp_dir/dump; restore: the extracted archive
    localArchive,   \* the archive file in the scratch directory
    bresult,        \* the returned dict, NoBResult while none is returned
    \* ---- what the call has done so far (history)
    tempCreated,    \* scratch directories created
    bProcs,         \* external processes run
    bArchives,      \* archives created with tarfile
    bUploads,       \* storage.upload calls
    bDownloads,     \* storage.download calls
    bDrops,         \* drop_database calls
    bRestoreRuns,   \* mongorestore runs started
    bDumpFailed,    \* a mongodump run exited non-zero or could not be run
    bDownloadFailed,\* storage.download returned False
    bExtract,       \* "none", "founddb" or "nodbdir": what extraction found
    mongo0,         \* the server's databases when the call started
    storage0,       \* the storage path's archive when the call started
    \* ---- one verify_copy call
    vSource,        \* estimated_document_count() of the source collection
    vTarget,        \* estimated_document_count() of the target collection
    vSourceIdx,     \* len(list(source_collection.list_indexes()))
    vTargetIdx,     \* len(list(target_collection.list_indexes()))
    vSampleErrors,  \* len(sample_errors)
    vDigestsEqual,  \* the two collections hash to the same digest
    vReport,        \* the returned dict, NoReport while none is returned
    \* ---- a storage location and the delete calls made on it
    dBackend,       \* "none", "local", "ssh" or "ftp"
    dFiles,         \* the paths at which the location holds a file
    dLog,           \* the delete calls so far: path, environment, result
    \* ---- a SettingsManager and its configuration file
    settings,       \* self.settings
    configFile,     \* the content of ~/.mongo_wizard_settings.json
    sCalls,         \* number of mutating calls made so far
    sLast,          \* how the latest call ended
    saveFailed,     \* the latest save_settings call could not write the file
    \* ---- one invocation of the command line (cli.py main)
    cMode,          \* the mode the options select
    cYes,           \* --yes (assume_yes)
    cForce,         \* --force
    cVerify,        \* --verify
    cColl,          \* --source-collection is given
    cReported,      \* the operation failure printed, "none" if none
    cExit,          \* the exit code of the process, -1 while it runs
    \* ---- two copy_collection_with_indexes calls in a row, each verified
    runs,           \* number of calls that have returned and been verified
    firstResult,    \* the dict the first call returned
    countMatches,   \* count_match of the verify_copy after each call
    \* ---- one parse_collection_selection(selection, max_value) call
    selection,      \* the string, a sequence of characters
    max_value,
    parseResult,    \* what the call gave: a list, or ValueError raised
    \* ---- copy_with_mongodump: the two processes and the pipe between them
    ppc,            \* position of the orchestrator in copy_with_mongodump
    dump_process,   \* "none", "running" or "exited"
    restore_process,\* "none", "running" or "exited"
    dumpCode,       \* exit status of the dump process, -1 while there is none
    restoreCode,    \* restore_process.returncode, -1 while there is none
    toWrite,        \* chunks the dump process has still to write
    pipeData,       \* chunks in the pipe
    stdoutOpen,     \* the orchestrator holds dump_process.stdout open
    pipeResult,     \* what copy_with_mongodump returned: "none", "True", "False"
    \* ---- one copy_multiple_collections or copy_entire_database call
    mKind,          \* "none", "multiple" or "entire"
    sourceColls,    \* source database: collection -> document count, -1: absent
    targetColls,    \* target database: the same
    backups,        \* the <name>_backup_<timestamp> collections: count, -1: none
    backup_name,    \* copy_entire_database: "None", "" or "archive"
    collections,    \* the list of collection names to copy
    create_backup,
    mDropTarget,    \* the call's drop_target argument
    mForce,         \* the call's force argument
    mpc,            \* position in the call
    mTodo,          \* the part of the list the running loop has not reached
    prompts,        \* the confirmations requested so far, in order
    results,        \* the keys of the results dict
    dbDrops,        \* drop_database calls
    targetColls0,   \* the target database when the call started
    \* ---- one run of a saved copy task from the command line
    task_config,    \* the saved task: the shape of source_collection, drop_target
    tpc,            \* position in the run
    taskSuccess     \* what run_task returned: "none", "True" or "False"

hostVars == <<hasDump, hasRestore>>
collVars == <<srcDocs, srcIdx, tgtDocs, tgtIdx, tgtExists>>
argVars == <<drop_target, force, force_python, batch_size>>
localVars == <<pc, total_docs, cursor, batch, copied, indexes_created, result>>
histVars == <<asked, drops, spawned, dumpExit, restoreExit, inserts, tgtDocs0, tgtIdx0>>
idxVars == <<idxTodo, created, idxTried, idxFailed>>
insHist == <<insertErrors, lastBatch, tgtBefore>>
copyVars == <<collVars, argVars, localVars, histVars, idxVars, insHist>>

upVars == <<upBackend, upLocalSize, upRemoteSize, upCmdOk, upSizeRead, upResult>>

worldVars == <<mongo, storageFile>>
bArgVars == <<bop, bDb, bColls, bTarget, bDrop>>
bLocalVars == <<bpc, openConns, tempDir, bTodo, dumpDir, localArchive, bresult>>
bHistVars == <<tempCreated, bProcs, bArchives, bUploads, bDownloads, bDrops,
               bRestoreRuns, bDumpFailed, bDownloadFailed, bExtract, mongo0,
               storage0>>
bkVars == <<worldVars, bArgVars, bLocalVars, bHistVars>>

verVars == <<vSource, vTarget, vSourceIdx, vTargetIdx, vSampleErrors,
            vDigestsEqual, vReport>>

\* the components modelled after the backup manager
delVars == <<dBackend, dFiles, dLog>>
setVars == <<settings, configFile, sCalls, sLast, saveFailed>>
cliVars == <<cMode, cYes, cForce, cVerify, cColl, cReported, cExit>>
twiceVars == <<runs, firstResult, countMatches>>
parseVars == <<selection, max_value, parseResult>>
pipeVars == <<ppc, dump_process, restore_process, dumpCode, restoreCode, toWrite,
              pipeData, stdoutOpen, pipeResult>>
multiVars == <<mKind, sourceColls, targetColls, backups, backup_name,
               collections, create_backup, mDropTarget, mForce, mpc, mTodo,
               prompts, results, dbDrops, targetColls0>>
taskVars == <<task_config, tpc, taskSuccess>>
otherVars == <<twiceVars, parseVars, pipeVars, multiVars, taskVars>>
restVars == <<verVars, delVars, setVars, cliVars, otherVars>>

\* everything a copy leaves alone
notCopy == <<upVars, bkVars, restVars>>

vars == <<hostVars, copyVars, upVars, bkVars, restVars>>

\* ===================================================== the copy engine ===

Range(s) == {s[i] : i \in DOMAIN s}

\* estimated_document_count() of the target collection
TargetCount == Cardinality(tgtDocs)

\* the check with the restore binary forgotten
ToolsAvailableDumpOnly == hasDump

\* shutil.which('mongodump') and shutil.which('mongorestore')
ToolsAvailable == hasDump /\ hasRestore

\* the condition that selects the native-tool method
UseNative == ~force_python /\ ToolsAvailable

\* restore_process.returncode == 0: the value copy_with_mongodump returns
PipelineSuccess(de, re) == re = 0

\* no upload in progress
UploadIdle ==
    /\ upBackend = "none"
    /\ upLocalSize = 0
    /\ upRemoteSize = -1
    /\ upCmdOk = FALSE
    /\ upSizeRead = "notread"
    /\ upResult = "none"

\* no backup or restore in progress, an empty server, nothing stored
BackupIdle ==
    /\ mongo = [d \in DbNames |-> NoColls]
    /\ storageFile = NoFile
    /\ bop = "none"
    /\ bpc = "idle"
    /\ bDb = "none"
    /\ bColls = <<>>
    /\ bTarget = "none"
    /\ bDrop = FALSE
    /\ openConns = 0
    /\ tempDir = FALSE
    /\ bTodo = <<>>
    /\ dumpDir = NoFile
    /\ localArchive = NoFile
    /\ bresult = NoBResult
    /\ tempCreated = 0
    /\ bProcs = 0
    /\ bArchives = 0
    /\ bUploads = 0
    /\ bDownloads = 0
    /\ bDrops = 0
    /\ bRestoreRuns = 0
    /\ bDumpFailed = FALSE
    /\ bDownloadFailed = FALSE
    /\ bExtract = "none"
    /\ mongo0 = mongo
    /\ storage0 = storageFile

\* no verification in progress
VerifyIdle ==
    /\ vSource = 0
    /\ vTarget = 0
    /\ vSourceIdx = 0
    /\ vTargetIdx = 0
    /\ vSampleErrors = 0
    /\ vDigestsEqual = FALSE
    /\ vReport = NoReport

\* no storage location in use
DeleteIdle ==
    /\ dBackend = "none"
    /\ dFiles = {}
    /\ dLog = <<>>

\* the top-level keys of the settings, the names and the values (a URI, a
\* task or storage configuration) of the entries; NoEntry: no such name
Sections == {"hosts", "tasks", "storages"}
Names == {"prod", "staging"}
Values == {"v1", "v2"}
NoEntry == "-"

\* settings.py 32-33: {"hosts": {}, "tasks": {}, "storages": {}}
DefaultSettings ==
    [present |-> Sections, d |-> [s \in Sections |-> [n \in Names |-> NoEntry]]]

\* there is no configuration file
NoConfig == [kind |-> "absent", keys |-> {}, pairs |-> {}]

\* no SettingsManager in use
SettingsIdle ==
    /\ settings = DefaultSettings
    /\ configFile = NoConfig
    /\ sCalls = 0
    /\ sLast = "none"
    /\ saveFailed = FALSE

\* no command line invocation
CliIdle ==
    /\ cMode = "none"
    /\ cYes = FALSE
    /\ cForce = FALSE
    /\ cVerify = FALSE
    /\ cColl = FALSE
    /\ cReported = "none"
    /\ cExit = -1

\* no call has returned yet
TwiceIdle ==
    /\ runs = 0
    /\ firstResult = NoResult
    /\ countMatches = <<>>

\* the outcome of a parse_collection_selection call that has not been made
NoParse == [raised |-> FALSE, indices |-> <<0, 0>>]

ParseIdle ==
    /\ selection = <<>>
    /\ max_value = 0
    /\ parseResult = NoParse

\* no pipeline
PipeIdle ==
    /\ ppc = "idle"
    /\ dump_process = "none"
    /\ restore_process = "none"
    /\ dumpCode = -1
    /\ restoreCode = -1
    /\ toWrite = 0
    /\ pipeData = 0
    /\ stdoutOpen = FALSE
    /\ pipeResult = "none"

\* no call on a whole database
MultiIdle ==
    /\ mKind = "none"
    /\ sourceColls = NoColls
    /\ targetColls = NoColls
    /\ backups = NoColls
    /\ backup_name = "None"
    /\ collections = <<>>
    /\ create_backup = FALSE
    /\ mDropTarget = FALSE
    /\ mForce = FALSE
    /\ mpc = "idle"
    /\ mTodo = <<>>
    /\ prompts = <<>>
    /\ results = {}
    /\ dbDrops = 0
    /\ targetColls0 = NoColls

\* no task
NoTask == [source_collection |-> "none", drop_target |-> FALSE]

TaskIdle ==
    /\ task_config = NoTask
    /\ tpc = "idle"
    /\ taskSuccess = "none"

OthersIdle == TwiceIdle /\ ParseIdle /\ PipeIdle /\ MultiIdle /\ TaskIdle

RestIdle == VerifyIdle /\ DeleteIdle /\ SettingsIdle /\ CliIdle /\ OthersIdle

InitCopy ==
    /\ UploadIdle
    /\ BackupIdle
    /\ RestIdle
    /\ hasDump \in BOOLEAN
    /\ hasRestore \in BOOLEAN
    /\ \E n \in 0 .. MaxId : srcDocs = 1 .. n
    /\ \E k \in 0 .. MaxIdx : srcIdx = 1 .. k
    /\ tgtDocs \in SUBSET Ids
    /\ tgtIdx \in SUBSET Idxs
    \* a collection that holds documents or indexes exists; an empty one may
    /\ tgtExists \in BOOLEAN
    /\ (tgtDocs # {} \/ tgtIdx # {}) => tgtExists
    /\ drop_target \in BOOLEAN
    /\ force \in BOOLEAN
    /\ force_python \in BOOLEAN
    /\ batch_size \in 1 .. MaxBatch
    /\ pc = "start"
    /\ total_docs = 0
    /\ cursor = 0
    /\ batch = <<>>
    /\ copied = 0
    /\ indexes_created = 0
    /\ result = NoResult
    /\ asked = <<>>
    /\ drops = 0
    /\ spawned = 0
    /\ dumpExit = -1
    /\ restoreExit = -1
    /\ inserts = 0
    /\ tgtDocs0 = tgtDocs
    /\ tgtIdx0 = tgtIdx
    /\ idxTodo = <<>>
    /\ created = 0
    /\ idxTried = {}
    /\ idxFailed = {}
    /\ insertErrors = 0
    /\ lastBatch = <<>>
    /\ tgtBefore = {}

\* core.py 103-111: count the source, select the method
SelectMethod ==
    /\ pc = "start"
    /\ total_docs' = Cardinality(srcDocs)
    /\ pc' = IF UseNative THEN "n_drop" ELSE "p_drop"
    /\ UNCHANGED <<notCopy, idxVars, insHist, hostVars, collVars, argVars, histVars,
                   cursor, batch, copied, indexes_created, result>>

\* target_collection.drop()
DropCollection ==
    /\ tgtDocs' = {}
    /\ tgtIdx' = {}
    /\ tgtExists' = FALSE
    /\ drops' = drops + 1

\* core.py 115-118 and 153-156: drop the target when asked to and it holds
\* documents; without force the user is asked, and a declined prompt skips
\* the drop and goes on.
DropTargetHandling(next) ==
    IF drop_target /\ TargetCount > 0
    THEN IF force
         THEN /\ DropCollection
              /\ pc' = next
              /\ UNCHANGED <<srcDocs, srcIdx, asked>>
         ELSE \E a \in Answers :
                /\ asked' = Append(asked, a)
                /\ CASE a = "yes" -> /\ DropCollection
                                     /\ pc' = next
                                     /\ UNCHANGED <<srcDocs, srcIdx>>
                     [] a = "no" -> /\ pc' = next
                                    /\ UNCHANGED <<collVars, drops>>
                     [] a = "eof" -> /\ pc' = "raised"
                                     /\ UNCHANGED <<collVars, drops>>
    ELSE /\ pc' = next
         /\ UNCHANGED <<collVars, asked, drops>>

NativeDrop ==
    /\ pc = "n_drop"
    /\ DropTargetHandling("n_copy")
    /\ UNCHANGED <<notCopy, idxVars, insHist, hostVars, argVars, total_docs, cursor, batch, copied,
                   indexes_created, result, spawned, dumpExit, restoreExit,
                   inserts, tgtDocs0, tgtIdx0>>

PythonDrop ==
    /\ pc = "p_drop"
    /\ DropTargetHandling("p_index")
    /\ UNCHANGED <<notCopy, idxVars, insHist, hostVars, argVars, total_docs, cursor, batch, copied,
                   indexes_created, result, spawned, dumpExit, restoreExit,
                   inserts, tgtDocs0, tgtIdx0>>

\* core.py 136-141: the result of the native path, counted on the target
NativeResult(docs, idx) ==
    [documents_copied |-> Cardinality(docs),
     indexes_created |-> Cardinality(idx),
     source_count |-> total_docs,
     method |-> "mongodump"]

\* core.py 121-143 with copy_with_mongodump (198-245): start both processes,
\* wait for the restore, return on success and fall back otherwise.
\*   ds, rs: Popen of the dump / the restore command succeeds (a missing
\*           binary makes it raise; any exception is caught and gives False)
\*   de, re: the exit statuses of the two processes
\*   w:      the source documents the restore wrote before it exited
CopyWithMongodump ==
    /\ pc = "n_copy"
    /\ IF ~ToolsAvailable
       THEN /\ pc' = "p_drop"
            /\ UNCHANGED <<collVars, spawned, dumpExit, restoreExit, result>>
       ELSE \E ds \in {hasDump, FALSE}, rs \in {hasRestore, FALSE} :
          IF ~ds
          THEN /\ pc' = "p_drop"
               /\ UNCHANGED <<collVars, spawned, dumpExit, restoreExit, result>>
          ELSE IF ~rs
          THEN /\ spawned' = spawned + 1
               /\ pc' = "p_drop"
               /\ UNCHANGED <<collVars, dumpExit, restoreExit, result>>
          ELSE \E de \in {0, 1}, re \in {0, 1}, w \in SUBSET srcDocs :
               /\ (de = 0 /\ re = 0) => w = srcDocs
               /\ spawned' = spawned + 2
               /\ dumpExit' = de
               /\ restoreExit' = re
               /\ tgtDocs' = tgtDocs \cup w
               /\ tgtIdx' = IF de = 0 /\ re = 0 THEN tgtIdx \cup srcIdx ELSE tgtIdx
               /\ tgtExists' = (tgtExists \/ w # {} \/ (de = 0 /\ re = 0))
               /\ UNCHANGED <<srcDocs, srcIdx>>
               /\ IF PipelineSuccess(de, re)
                  THEN /\ result' = NativeResult(tgtDocs', tgtIdx')
                       /\ pc' = "returned"
                  ELSE /\ result' = result
                       /\ pc' = "p_drop"
    /\ UNCHANGED <<notCopy, idxVars, insHist, hostVars, argVars, total_docs, cursor, batch, copied,
                   indexes_created, asked, drops, inserts, tgtDocs0, tgtIdx0>>

\* a listing that holds the _id_ index only
ListIndexesIdOnly(idx) == <<0>>

\* list(collection.list_indexes()): the _id_ index, written 0, then the
\* others in ascending order
ListIndexes(idx) ==
    LET n == Cardinality(idx)
        rest == CHOOSE q \in [1 .. n -> idx] :
                    \A i \in 1 .. n, j \in 1 .. n : i < j => q[i] < q[j]
    IN  <<0>> \o rest

\* the try/except around create_index left out
IndexErrorNotCaught == FALSE

\* core.py 73-83: create_index is called inside try/except Exception
IndexErrorCaught == TRUE

\* core.py 158-160 and 60-66: copy_indexes is called; it lists the source's
\* indexes and sets created to 0.
CopyIndexes ==
    /\ pc = "p_index"
    /\ idxTodo' = ListIndexes(srcIdx)
    /\ created' = 0
    /\ pc' = "p_index_loop"
    /\ UNCHANGED <<notCopy, insHist, hostVars, collVars, argVars, histVars,
                   idxTried, idxFailed, total_docs, cursor, batch, copied,
                   indexes_created, result>>

\* core.py 68-82: one turn of the loop of copy_indexes.  The _id_ index is
\* skipped; for any other index create_index either creates it on the target
\* (creating the collection if need be) or raises.
CopyIndexesLoop ==
    /\ pc = "p_index_loop"
    /\ idxTodo # <<>>
    /\ idxTodo' = Tail(idxTodo)
    /\ LET index == Head(idxTodo) IN
         IF index = 0
         THEN UNCHANGED <<tgtIdx, tgtExists, created, idxTried, idxFailed, pc>>
         ELSE /\ idxTried' = idxTried \cup {index}
              /\ \E ok \in BOOLEAN :
                   IF ok
                   THEN /\ tgtIdx' = tgtIdx \cup {index}
                        /\ tgtExists' = TRUE
                        /\ created' = created + 1
                        /\ UNCHANGED <<idxFailed, pc>>
                   ELSE /\ idxFailed' = idxFailed \cup {index}
                        /\ pc' = IF IndexErrorCaught THEN pc ELSE "raised"
                        /\ UNCHANGED <<tgtIdx, tgtExists, created>>
    /\ UNCHANGED <<notCopy, insHist, hostVars, argVars, histVars, srcDocs,
                   srcIdx, tgtDocs, total_docs, cursor, batch, copied,
                   indexes_created, result>>

\* core.py 84 and 160-165: copy_indexes returns created; the document
\* transfer starts with copied = 0 and an empty batch.
CopyIndexesReturn ==
    /\ pc = "p_index_loop"
    /\ idxTodo = <<>>
    /\ indexes_created' = created
    /\ copied' = 0
    /\ batch' = <<>>
    /\ cursor' = 0
    /\ pc' = "p_loop"
    /\ UNCHANGED <<notCopy, idxVars, insHist, hostVars, collVars, argVars,
                   histVars, total_docs, result>>

\* the keyword ordered left at its default
OrderedDefault == TRUE

\* core.py 180, 187: insert_many(batch, ordered=False)
Ordered == FALSE

\* The documents insert_many(b, ordered=...) writes to a collection that
\* holds docs.  A document whose _id is in the collection already is a write
\* error; an ordered insert stops at the first write error, an unordered one
\* goes through the whole batch.
Written(b, docs, ordered) ==
    LET dup(i) == b[i] \in docs
        firstDup == CHOOSE i \in 1 .. Len(b) + 1 :
                        /\ i <= Len(b) => dup(i)
                        /\ \A j \in 1 .. i - 1 : ~dup(j)
    IN  {b[i] : i \in {j \in 1 .. Len(b) :
                         ~dup(j) /\ (ordered => j < firstDup)}}

\* insert_many raises BulkWriteError when there was a write error
InsertRaises(b) == Range(b) \cap tgtDocs # {}

\* target_collection.insert_many(b, ordered=False)
InsertMany(b) ==
    /\ tgtDocs' = tgtDocs \cup Written(b, tgtDocs, Ordered)
    /\ tgtExists' = TRUE
    /\ inserts' = inserts + 1
    /\ insertErrors' = IF InsertRaises(b) THEN insertErrors + 1 ELSE insertErrors
    /\ lastBatch' = b
    /\ tgtBefore' = tgtDocs

\* the insert_many calls wrapped in a try/except that goes on
InsertErrorSwallowed == FALSE

\* core.py 176-189: nothing catches what insert_many raises
InsertErrorPropagates == TRUE

\* core.py 176-183: one turn of the loop over source_collection.find()
CopyLoop ==
    /\ pc = "p_loop"
    /\ cursor < Cardinality(srcDocs)
    /\ cursor' = cursor + 1
    /\ LET b == Append(batch, cursor + 1) IN
         IF Len(b) >= batch_size
         THEN /\ InsertMany(b)
              /\ IF InsertRaises(b) /\ InsertErrorPropagates
                 THEN /\ pc' = "raised"
                      /\ UNCHANGED <<batch, copied>>
                 ELSE /\ copied' = copied + Len(b)
                      /\ batch' = <<>>
                      /\ pc' = pc
         ELSE /\ batch' = b
              /\ UNCHANGED <<tgtDocs, tgtExists, inserts, insHist, copied, pc>>
    /\ UNCHANGED <<notCopy, idxVars, hostVars, argVars, srcDocs, srcIdx, tgtIdx,
                   total_docs, indexes_created, result, asked, drops, spawned,
                   dumpExit, restoreExit, tgtDocs0, tgtIdx0>>

\* core.py 191-196: the result of the driver-copy path
PythonResult(n) ==
    [documents_copied |-> n,
     indexes_created |-> indexes_created,
     source_count |-> total_docs,
     method |-> "python"]

\* core.py 185-196: the cursor is exhausted; flush the rest and return
CopyFlush ==
    /\ pc = "p_loop"
    /\ cursor = Cardinality(srcDocs)
    /\ IF batch # <<>>
       THEN /\ InsertMany(batch)
            /\ IF InsertRaises(batch) /\ InsertErrorPropagates
               THEN /\ pc' = "raised"
                    /\ UNCHANGED <<batch, copied, result>>
               ELSE /\ copied' = copied + Len(batch)
                    /\ batch' = batch
                    /\ result' = PythonResult(copied')
                    /\ pc' = "returned"
       ELSE /\ result' = PythonResult(copied)
            /\ pc' = "returned"
            /\ UNCHANGED <<tgtDocs, tgtExists, inserts, insHist, batch, copied>>
    /\ UNCHANGED <<notCopy, idxVars, hostVars, argVars, srcDocs, srcIdx, tgtIdx,
                   total_docs, cursor, indexes_created, asked, drops, spawned,
                   dumpExit, restoreExit, tgtDocs0, tgtIdx0>>

NextCopy ==
    \/ SelectMethod
    \/ NativeDrop
    \/ CopyWithMongodump
    \/ PythonDrop
    \/ CopyIndexes
    \/ CopyIndexesLoop
    \/ CopyIndexesReturn
    \/ CopyLoop
    \/ CopyFlush

SpecCopy == InitCopy /\ [][NextCopy]_vars

\* --------------------------------------- the same copy, twice in a row

\* core.py 416: 'count_match': source_count == target_count
CountMatch(source_count, target_count) == source_count = target_count

\* The caller of the idempotence scenario: the call has returned; verify_copy
\* compares the counts; after the first call the same call is made again on
\* the collections as they now are.
VerifyAndRepeat ==
    /\ pc = "returned"
    /\ runs < 2
    /\ runs' = runs + 1
    /\ countMatches' = Append(countMatches,
                              CountMatch(Cardinality(srcDocs), TargetCount))
    /\ IF runs = 0
       THEN /\ firstResult' = result
            /\ pc' = "start"
            /\ total_docs' = 0
            /\ cursor' = 0
            /\ batch' = <<>>
            /\ copied' = 0
            /\ indexes_created' = 0
            /\ result' = NoResult
            /\ asked' = <<>>
            /\ drops' = 0
            /\ spawned' = 0
            /\ dumpExit' = -1
            /\ restoreExit' = -1
            /\ inserts' = 0
            /\ tgtDocs0' = tgtDocs
            /\ tgtIdx0' = tgtIdx
            /\ idxTodo' = <<>>
            /\ created' = 0
            /\ idxTried' = {}
            /\ idxFailed' = {}
            /\ insertErrors' = 0
            /\ lastBatch' = <<>>
            /\ tgtBefore' = {}
       ELSE UNCHANGED <<firstResult, localVars, histVars, idxVars, insHist>>
    /\ UNCHANGED <<hostVars, collVars, argVars, upVars, bkVars, verVars,
                   delVars, setVars, cliVars, parseVars, pipeVars, multiVars,
                   taskVars>>

\* drop_target and force set, any source, any target
InitTwice ==
    /\ InitCopy
    /\ drop_target
    /\ force

NextTwice ==
    \/ SelectMethod
    \/ NativeDrop
    \/ CopyWithMongodump
    \/ PythonDrop
    \/ CopyIndexes
    \/ CopyIndexesLoop
    \/ CopyIndexesReturn
    \/ CopyLoop
    \/ CopyFlush
    \/ VerifyAndRepeat

SpecTwice == InitTwice /\ [][NextTwice]_vars

\* ================================================= the storage backends ===

Backends == {"local", "paramiko", "scp", "ftp"}

\* sizes a file at the remote path can have; -1: there is no such file
RemoteSizes == -1 .. MaxSize

\* no copy in progress
CopyIdle ==
    /\ srcDocs = {}
    /\ srcIdx = {}
    /\ tgtDocs = {}
    /\ tgtIdx = {}
    /\ tgtExists = FALSE
    /\ drop_target = FALSE
    /\ force = FALSE
    /\ force_python = FALSE
    /\ batch_size = 1
    /\ pc = "idle"
    /\ total_docs = 0
    /\ cursor = 0
    /\ batch = <<>>
    /\ copied = 0
    /\ indexes_created = 0
    /\ result = NoResult
    /\ asked = <<>>
    /\ drops = 0
    /\ spawned = 0
    /\ dumpExit = -1
    /\ restoreExit = -1
    /\ inserts = 0
    /\ tgtDocs0 = {}
    /\ tgtIdx0 = {}
    /\ idxTodo = <<>>
    /\ created = 0
    /\ idxTried = {}
    /\ idxFailed = {}
    /\ insertErrors = 0
    /\ lastBatch = <<>>
    /\ tgtBefore = {}

\* A local file of any size is about to be uploaded; the remote path is
\* free or holds an older file.
InitUpload ==
    /\ hasDump = FALSE
    /\ hasRestore = FALSE
    /\ CopyIdle
    /\ BackupIdle
    /\ RestIdle
    /\ upBackend = "none"
    /\ upLocalSize \in 0 .. MaxSize
    /\ upRemoteSize \in RemoteSizes
    /\ upCmdOk = FALSE
    /\ upSizeRead = "notread"
    /\ upResult = "none"

\* the upload of backend b ends: the transfer command reported ok, the file
\* at the remote path now has size r, the size check saw sr, upload returns res
UploadEnds(b, ok, r, sr, res) ==
    /\ upResult = "none"
    /\ upBackend' = b
    /\ upCmdOk' = ok
    /\ upRemoteSize' = r
    /\ upSizeRead' = sr
    /\ upResult' = IF res THEN "success" ELSE "failure"
    /\ UNCHANGED <<upLocalSize, hostVars, copyVars, bkVars, restVars>>

\* storage.py 149-158 LocalStorage.upload: shutil.copy2 either copies the
\* whole file or raises (leaving nothing, the old file or a partial file);
\* the size is not looked at.
LocalUpload ==
    \E raises \in BOOLEAN, r \in RemoteSizes :
        /\ raises => r <= upLocalSize \/ r = upRemoteSize
        /\ ~raises => r = upLocalSize
        /\ UploadEnds("local", ~raises, r, "notread", ~raises)

\* storage.py 344-355: the comparison of sftp.stat(remote_path).st_size with
\* the local size
ParamikoVerified(remote_size, file_size) == remote_size = file_size

\* storage.py 296-359 SSHStorage._upload_with_paramiko: connect, sftp.put,
\* then sftp.stat and the size comparison; every exception gives False.
\*   step: where an exception is raised ("connect", "put", "stat") or "none"
ParamikoUpload ==
    \E step \in {"connect", "put", "stat", "none"}, r \in RemoteSizes :
        /\ step = "connect" => r = upRemoteSize
        /\ step = "none" => r >= 0
        /\ UploadEnds("paramiko", step \in {"stat", "none"}, r,
                      IF step = "none" THEN "ok"
                      ELSE IF step = "stat" THEN "unreadable" ELSE "notread",
                      step = "none" /\ ParamikoVerified(r, upLocalSize))

\* storage.py 408: the size test of the scp path; remote_size is 0 when the
\* ls output could not be parsed
ScpSizeMismatch(remote_size, file_size) ==
    remote_size # 0 /\ remote_size # file_size

\* storage.py 361-420 SSHStorage._upload_with_subprocess: mkdir -p, scp, then
\* ls -la and the size test.
\*   mk:      mkdir -p exits 0
\*   scp:     "ok" (exit 0), "fail" (non-zero exit), "timeout" or "raise"
\*   ls:      ls -la exits 0 (it cannot when there is no file)
\*   parsed:  the fifth column of the ls output is a number
ScpUpload ==
    \E mk \in BOOLEAN, scp \in {"ok", "fail", "timeout", "raise"},
       ls \in BOOLEAN, parsed \in BOOLEAN, r \in RemoteSizes :
        LET checked == mk /\ scp = "ok" /\ ls
            remote_size == IF parsed THEN r ELSE 0
        IN  /\ ~mk => r = upRemoteSize
            /\ r < 0 => ~ls
            /\ UploadEnds("scp", mk /\ scp = "ok", r,
                          IF ~checked THEN "notread"
                          ELSE IF parsed THEN "ok" ELSE "unreadable",
                          checked /\ ~ScpSizeMismatch(remote_size, upLocalSize))

\* storage.py 615-651 FTPStorage.upload: connect, mkd/cwd, storbinary, quit;
\* True unless an exception was raised.  The remote size is never read.
FTPUpload ==
    \E raises \in BOOLEAN, r \in RemoteSizes :
        /\ ~raises => r >= 0
        /\ UploadEnds("ftp", ~raises, r, "notread", ~raises)

NextUpload ==
    \/ LocalUpload
    \/ ParamikoUpload
    \/ ScpUpload
    \/ FTPUpload

SpecUpload == InitUpload /\ [][NextUpload]_vars

\* =================================================== the backup manager ===

\* the collections arguments a caller passes: None or a list of names
CollLists == {<<>>, <<"a">>, <<"b">>, <<"a", "b">>}

\* the archives a storage path can hold when a call starts: nothing, a file
\* that is no archive, a foreign archive, or what an earlier backup stored
StoredArchives ==
    {NoFile, Corrupt, NoDumpDir, EmptyDump}
        \cup {DumpOf("shop", cs) : cs \in [Colls -> Counts]}

InitBackup ==
    /\ hasDump \in BOOLEAN
    /\ hasRestore \in BOOLEAN
    /\ CopyIdle
    /\ UploadIdle
    /\ RestIdle
    /\ mongo \in [DbNames -> [Colls -> Counts]]
    /\ storageFile \in StoredArchives
    /\ bop = "none"
    /\ bpc = "idle"
    /\ bDb = "none"
    /\ bColls = <<>>
    /\ bTarget = "none"
    /\ bDrop = FALSE
    /\ openConns = 0
    /\ tempDir = FALSE
    /\ bTodo = <<>>
    /\ dumpDir = NoFile
    /\ localArchive = NoFile
    /\ bresult = NoBResult
    /\ tempCreated = 0
    /\ bProcs = 0
    /\ bArchives = 0
    /\ bUploads = 0
    /\ bDownloads = 0
    /\ bDrops = 0
    /\ bRestoreRuns = 0
    /\ bDumpFailed = FALSE
    /\ bDownloadFailed = FALSE
    /\ bExtract = "none"
    /\ mongo0 = mongo
    /\ storage0 = storageFile

\* the directory is removed at the end of the block only, not by an exception
ExitScratchNoFinally(how) == how = "raise"

\* what is left of the scratch directory when the block of
\* `with tempfile.TemporaryDirectory() as temp_dir` (backup.py 83, 215) is
\* left by a return or by an exception: nothing
ExitScratch(how) == FALSE

\* the block is left with result r ("raise": an exception propagates)
LeaveBlock(how, r) ==
    /\ tempDir' = ExitScratch(how)
    /\ bpc' = IF how = "raise" THEN "raised" ELSE "done"
    /\ bresult' = r

\* the check for mongodump left out
DumpToolNotChecked == FALSE

\* backup.py 110-111: tools['mongodump'] is False
DumpToolMissing == ~hasDump

\* backup.py 210-211: tools['mongorestore'] is False
RestoreToolMissing == ~hasRestore

\* backup.py 75-107: connect, create the scratch directory, count
BackupStart ==
    /\ bpc = "idle"
    /\ bop' = "backup"
    /\ \E db \in DbNames, cl \in CollLists, connected \in BOOLEAN :
         /\ bDb' = db
         /\ bColls' = cl
         /\ IF ~connected
            THEN /\ bresult' = Failure("Connection failed")
                 /\ bpc' = "done"
                 /\ UNCHANGED <<openConns, tempDir, tempCreated>>
            ELSE /\ openConns' = openConns + 1
                 /\ tempDir' = TRUE
                 /\ tempCreated' = tempCreated + 1
                 /\ bpc' = "b_tools"
                 /\ bresult' = bresult
    /\ UNCHANGED <<restVars, hostVars, copyVars, upVars, worldVars, bTarget, bDrop,
                   bTodo, dumpDir, localArchive, bProcs, bArchives, bUploads,
                   bDownloads, bDrops, bRestoreRuns, bDumpFailed,
                   bDownloadFailed, bExtract, mongo0, storage0>>

\* backup.py 109-125: without mongodump return a failure; otherwise one
\* mongodump run per requested collection, or one for the whole database
BackupCheckTools ==
    /\ bpc = "b_tools"
    /\ IF DumpToolMissing
       THEN /\ LeaveBlock("return", Failure("mongodump not found"))
            /\ bTodo' = bTodo
       ELSE /\ bTodo' = IF bColls = <<>> THEN <<"*">> ELSE bColls
            /\ bpc' = "b_dump"
            /\ UNCHANGED <<tempDir, bresult>>
    /\ UNCHANGED <<restVars, hostVars, copyVars, upVars, worldVars, bArgVars, openConns,
                   dumpDir, localArchive, bHistVars>>

\* what a successful mongodump --db db [--collection c] --out dump adds
Dumped(dd, db, what) ==
    LET cs == [c \in Colls |->
                 IF (what = "*" \/ what = c) /\ mongo[db][c] >= 0
                 THEN mongo[db][c] ELSE dd.colls[c]]
    IN  [kind |-> "dump",
         db |-> IF cs = NoColls THEN "none" ELSE db,
         colls |-> cs]

\* backup.py 118-125 with _run_mongodump (378-397): one run of mongodump; its
\* return value is not looked at.  A run that fails may or may not have
\* created the output directory.
BackupDumpRun ==
    /\ bpc = "b_dump"
    /\ bTodo # <<>>
    /\ bTodo' = Tail(bTodo)
    /\ \E ok \in {hasDump, FALSE}, mkdir \in BOOLEAN :
         /\ bProcs' = IF hasDump THEN bProcs + 1 ELSE bProcs
         /\ bDumpFailed' = (bDumpFailed \/ ~ok)
         /\ dumpDir' = IF ok THEN Dumped(dumpDir, bDb, Head(bTodo))
                       ELSE IF mkdir /\ hasDump /\ dumpDir.kind = "nofile"
                            THEN EmptyDump
                            ELSE dumpDir
         /\ ok => mkdir
    /\ UNCHANGED <<restVars, hostVars, copyVars, upVars, worldVars, bArgVars, bpc,
                   openConns, tempDir, localArchive, bresult, tempCreated,
                   bArchives, bUploads, bDownloads, bDrops, bRestoreRuns,
                   bDownloadFailed, bExtract, mongo0, storage0>>

\* backup.py 127-145: tar the dump directory; tar.add raises when there is
\* no dump directory
BackupArchive ==
    /\ bpc = "b_dump"
    /\ bTodo = <<>>
    /\ IF dumpDir.kind = "nofile"
       THEN /\ LeaveBlock("raise", bresult)
            /\ UNCHANGED <<localArchive, bArchives>>
       ELSE /\ localArchive' = dumpDir
            /\ bArchives' = bArchives + 1
            /\ bpc' = "b_upload"
            /\ UNCHANGED <<tempDir, bresult>>
    /\ UNCHANGED <<restVars, hostVars, copyVars, upVars, worldVars, bArgVars, openConns,
                   bTodo, dumpDir, tempCreated, bProcs, bUploads, bDownloads,
                   bDrops, bRestoreRuns, bDumpFailed, bDownloadFailed,
                   bExtract, mongo0, storage0>>

\* backup.py 147-187: upload the archive, close the connection, return.
\* The storage backend's answer is taken as it is given here; how each
\* backend arrives at it is UploadEnds above.
BackupUpload ==
    /\ bpc = "b_upload"
    /\ bUploads' = bUploads + 1
    /\ openConns' = openConns - 1
    /\ \E ok \in BOOLEAN :
         IF ok
         THEN /\ storageFile' = localArchive
              /\ LeaveBlock("return", Success)
         ELSE /\ storageFile' \in {storageFile, Corrupt}
              /\ LeaveBlock("return", Failure("Storage upload failed"))
    /\ UNCHANGED <<restVars, hostVars, copyVars, upVars, mongo, bArgVars, bTodo, dumpDir,
                   localArchive, tempCreated, bProcs, bArchives, bDownloads,
                   bDrops, bRestoreRuns, bDumpFailed, bDownloadFailed,
                   bExtract, mongo0, storage0>>

\* backup.py 206-217: connect, check for mongorestore, create the scratch
\* directory
RestoreStart ==
    /\ bpc = "idle"
    /\ bop' = "restore"
    /\ \E t \in DbNames \cup {"none"}, dr \in BOOLEAN, connected \in BOOLEAN :
         /\ bTarget' = t
         /\ bDrop' = dr
         /\ IF ~connected
            THEN /\ bresult' = Failure("Connection failed")
                 /\ bpc' = "done"
                 /\ UNCHANGED <<openConns, tempDir, tempCreated>>
            ELSE IF RestoreToolMissing
            THEN /\ openConns' = openConns + 1
                 /\ bresult' = Failure("mongorestore not found")
                 /\ bpc' = "done"
                 /\ UNCHANGED <<tempDir, tempCreated>>
            ELSE /\ openConns' = openConns + 1
                 /\ tempDir' = TRUE
                 /\ tempCreated' = tempCreated + 1
                 /\ bpc' = "r_download"
                 /\ bresult' = bresult
    /\ UNCHANGED <<restVars, hostVars, copyVars, upVars, worldVars, bDb, bColls, bTodo,
                   dumpDir, localArchive, bProcs, bArchives, bUploads,
                   bDownloads, bDrops, bRestoreRuns, bDumpFailed,
                   bDownloadFailed, bExtract, mongo0, storage0>>

\* backup.py 219-221: storage.download; a file that is not there cannot be
\* downloaded, one that is there may fail to
RestoreDownload ==
    /\ bpc = "r_download"
    /\ bDownloads' = bDownloads + 1
    /\ \E ok \in {storageFile.kind # "nofile", FALSE} :
         IF ok
         THEN /\ localArchive' = storageFile
              /\ bpc' = "r_extract"
              /\ UNCHANGED <<tempDir, bresult, bDownloadFailed>>
         ELSE /\ bDownloadFailed' = TRUE
              /\ LeaveBlock("return", Failure("Failed to retrieve backup"))
              /\ UNCHANGED localArchive
    /\ UNCHANGED <<restVars, hostVars, copyVars, upVars, worldVars, bArgVars, openConns,
                   bTodo, dumpDir, tempCreated, bProcs, bArchives, bUploads,
                   bDrops, bRestoreRuns, bDumpFailed, bExtract, mongo0,
                   storage0>>

\* backup.py 227-260: extract the archive and look for the database
\* directory: tarfile.open raises on a file that is no archive, os.listdir
\* raises when the archive has no dump directory, and an empty dump
\* directory is an invalid backup
RestoreExtract ==
    /\ bpc = "r_extract"
    /\ CASE localArchive.kind = "corrupt" ->
              /\ LeaveBlock("raise", bresult)
              /\ UNCHANGED <<dumpDir, bExtract>>
         [] localArchive.kind = "nodump" ->
              /\ bExtract' = "nodbdir"
              /\ dumpDir' = localArchive
              /\ LeaveBlock("raise", bresult)
         [] localArchive.kind = "dump" /\ localArchive.db = "none" ->
              /\ bExtract' = "nodbdir"
              /\ dumpDir' = localArchive
              /\ LeaveBlock("return", Failure("Invalid backup file"))
         [] OTHER ->
              /\ bExtract' = "founddb"
              /\ dumpDir' = localArchive
              /\ bpc' = "r_drop"
              /\ UNCHANGED <<tempDir, bresult>>
    /\ UNCHANGED <<restVars, hostVars, copyVars, upVars, worldVars, bArgVars, openConns,
                   bTodo, localArchive, tempCreated, bProcs, bArchives,
                   bUploads, bDownloads, bDrops, bRestoreRuns, bDumpFailed,
                   bDownloadFailed, mongo0, storage0>>

\* the target_database argument ignored
TargetDbOfArchive == dumpDir.db

\* backup.py 250-251: target_db = target_database or source_db
TargetDb == IF bTarget = "none" THEN dumpDir.db ELSE bTarget

\* backup.py 262-264: drop the target database when asked to
RestoreDrop ==
    /\ bpc = "r_drop"
    /\ IF bDrop
       THEN /\ mongo' = [mongo EXCEPT ![TargetDb] = NoColls]
            /\ bDrops' = bDrops + 1
       ELSE UNCHANGED <<mongo, bDrops>>
    /\ bpc' = "r_restore"
    /\ UNCHANGED <<restVars, hostVars, copyVars, upVars, storageFile, bArgVars,
                   openConns, tempDir, bTodo, dumpDir, localArchive, bresult,
                   tempCreated, bProcs, bArchives, bUploads, bDownloads,
                   bRestoreRuns, bDumpFailed, bDownloadFailed, bExtract,
                   mongo0, storage0>>

\* the document counts mongorestore can leave in a collection that held old
\* documents (-1: none) when it restores n: with --drop exactly n, otherwise
\* the documents whose _id is already there are skipped
RestoredCounts(old, n, drop) ==
    IF old < 0 \/ drop THEN {n}
    ELSE (IF old > n THEN old ELSE n) .. (old + n)

\* backup.py 266-304 with _run_mongorestore (399-418): run mongorestore with
\* the namespace remap, close the connection, return.
\*   ok:   the exit status is 0
\*   done: the collections of the archive that were restored
RestoreRun ==
    /\ bpc = "r_restore"
    /\ bRestoreRuns' = bRestoreRuns + 1
    /\ bProcs' = IF hasRestore THEN bProcs + 1 ELSE bProcs
    /\ openConns' = openConns - 1
    /\ LET inArchive == {c \in Colls : dumpDir.colls[c] >= 0} IN
       \E ok \in {hasRestore, FALSE}, done \in SUBSET inArchive :
         /\ ok => done = inArchive
         /\ ~hasRestore => done = {}
         /\ \E new \in [Colls -> -1 .. 2 * MaxCount] :
              /\ \A c \in Colls :
                   IF c \in done
                   THEN new[c] \in RestoredCounts(mongo[TargetDb][c],
                                                  dumpDir.colls[c], bDrop)
                   ELSE new[c] = mongo[TargetDb][c]
              /\ mongo' = [mongo EXCEPT ![TargetDb] = new]
         /\ IF ok
            THEN LeaveBlock("return", Success)
            ELSE LeaveBlock("return", Failure("mongorestore failed"))
    /\ UNCHANGED <<restVars, hostVars, copyVars, upVars, storageFile, bArgVars, bTodo,
                   dumpDir, localArchive, tempCreated, bArchives, bUploads,
                   bDownloads, bDrops, bDumpFailed, bDownloadFailed, bExtract,
                   mongo0, storage0>>

NextBackup ==
    \/ BackupStart
    \/ BackupCheckTools
    \/ BackupDumpRun
    \/ BackupArchive
    \/ BackupUpload
    \/ RestoreStart
    \/ RestoreDownload
    \/ RestoreExtract
    \/ RestoreDrop
    \/ RestoreRun

SpecBackup == InitBackup /\ [][NextBackup]_vars

\* ------------------------------------------- a backup, then a restore of it

\* The caller of test_backup_and_restore_local: after backup_database has
\* returned success, a second BackupManager on the same storage is about to
\* restore the archive.  bDb and bColls keep naming what was backed up; the
\* rest of the call's state starts afresh.
NextCall ==
    /\ bpc = "done"
    /\ bop = "backup"
    /\ bresult.success
    /\ bop' = "none"
    /\ bpc' = "idle"
    /\ bresult' = NoBResult
    /\ bTodo' = <<>>
    /\ dumpDir' = NoFile
    /\ localArchive' = NoFile
    /\ tempCreated' = 0
    /\ bProcs' = 0
    /\ bArchives' = 0
    /\ bUploads' = 0
    /\ bDownloads' = 0
    /\ bDrops' = 0
    /\ bRestoreRuns' = 0
    /\ bDumpFailed' = FALSE
    /\ bDownloadFailed' = FALSE
    /\ bExtract' = "none"
    /\ mongo0' = mongo
    /\ storage0' = storageFile
    /\ UNCHANGED <<restVars, hostVars, copyVars, upVars, worldVars, bDb, bColls, bTarget,
                   bDrop, openConns, tempDir>>

\* A server with any databases, an empty storage location.
InitRoundTrip ==
    /\ InitBackup
    /\ storageFile = NoFile

NextRoundTrip ==
    \/ BackupStart
    \/ BackupCheckTools
    \/ BackupDumpRun
    \/ BackupArchive
    \/ BackupUpload
    \/ NextCall
    \/ RestoreStart
    \/ RestoreDownload
    \/ RestoreExtract
    \/ RestoreDrop
    \/ RestoreRun

SpecRoundTrip == InitRoundTrip /\ [][NextRoundTrip]_vars

\* ================================================== the verification ===

\* constants.py 31
CHECKSUM_THRESHOLD == 10000

\* the source counts of the model: the threshold and MaxOver counts on
\* either side of it
VerifyCounts == (CHECKSUM_THRESHOLD - MaxOver) .. (CHECKSUM_THRESHOLD + MaxOver)

InitVerify ==
    /\ hasDump = FALSE
    /\ hasRestore = FALSE
    /\ CopyIdle
    /\ UploadIdle
    /\ BackupIdle
    /\ DeleteIdle
    /\ SettingsIdle
    /\ CliIdle
    /\ OthersIdle
    /\ vSource \in VerifyCounts
    /\ vTarget \in VerifyCounts
    /\ vSourceIdx \in 1 .. MaxIdx + 1
    /\ vTargetIdx \in 0 .. MaxIdx + 1
    /\ vSampleErrors \in 0 .. 1
    /\ vDigestsEqual \in BOOLEAN
    \* collections of different sizes do not hash alike, and collections that
    \* hash alike have no sample error
    /\ vDigestsEqual => (vSource = vTarget /\ vSampleErrors = 0)
    /\ vReport = NoReport

\* the test with the threshold itself eligible
ChecksumEligibleInclusive(source_count) == source_count <= CHECKSUM_THRESHOLD

\* core.py 408: if source_count < CHECKSUM_THRESHOLD
ChecksumEligible(source_count) == source_count < CHECKSUM_THRESHOLD

\* core.py 406-411: None unless eligible, else the comparison of the digests
ChecksumMatch ==
    IF ChecksumEligible(vSource)
    THEN IF vDigestsEqual THEN "true" ELSE "false"
    ELSE "null"

\* core.py 374-423: verify_copy
VerifyCopy ==
    /\ vReport = NoReport
    /\ vReport' = [source_count |-> vSource,
                   target_count |-> vTarget,
                   count_match |-> vSource = vTarget,
                   source_indexes |-> vSourceIdx,
                   target_indexes |-> vTargetIdx,
                   index_match |-> vSourceIdx = vTargetIdx,
                   sample_match |-> vSampleErrors = 0,
                   checksum_match |-> ChecksumMatch]
    /\ UNCHANGED <<hostVars, copyVars, upVars, bkVars, delVars, setVars,
                   cliVars, otherVars, vSource, vTarget,
                   vSourceIdx, vTargetIdx, vSampleErrors, vDigestsEqual>>

NextVerify == VerifyCopy

SpecVerify == InitVerify /\ [][NextVerify]_vars

\* ====================================================== storage delete ===

Paths == 1 .. MaxPath

\* A storage location of one of the three backends, holding any files.
InitDelete ==
    /\ hasDump = FALSE
    /\ hasRestore = FALSE
    /\ CopyIdle
    /\ UploadIdle
    /\ BackupIdle
    /\ VerifyIdle
    /\ SettingsIdle
    /\ CliIdle
    /\ OthersIdle
    /\ dBackend \in {"local", "ssh", "ftp"}
    /\ dFiles \in SUBSET Paths
    /\ dLog = <<>>

\* storage.py 186: Path(path).unlink() raises FileNotFoundError when there is
\* no file at path
UnlinkRaises(exists) == ~exists

\* storage.py 520: the exit status of `rm -f path`, 0 with or without a file
RmForceExit(exists) == 0

\* storage.py 704: ftp.delete(path) raises error_perm (550) when there is no
\* file at path
FtpDeleteRaises(exists) == ~exists

\* delete(path) ends: the file at path is gone if removed, the call returns res
\*   env: "ok", or "fail" when the location cannot be reached or refuses
DeleteEnds(path, env, removed, res) ==
    /\ Len(dLog) < MaxDeletes
    /\ dFiles' = IF removed THEN dFiles \ {path} ELSE dFiles
    /\ dLog' = Append(dLog, [path |-> path, env |-> env, result |-> res])
    /\ UNCHANGED <<hostVars, copyVars, upVars, bkVars, verVars, setVars,
                   cliVars, otherVars, dBackend>>

\* storage.py 183-190 LocalStorage.delete: unlink; True unless it raised
LocalDelete ==
    /\ dBackend = "local"
    /\ \E path \in Paths, env \in {"ok", "fail"} :
         LET raises == env = "fail" \/ UnlinkRaises(path \in dFiles)
         IN  DeleteEnds(path, env, ~raises, ~raises)

\* storage.py 517-527 SSHStorage.delete: ssh ... rm -f; True when ssh exits 0
SSHDelete ==
    /\ dBackend = "ssh"
    /\ \E path \in Paths, env \in {"ok", "fail"} :
         LET returncode == IF env = "fail" THEN 255
                           ELSE RmForceExit(path \in dFiles)
         IN  DeleteEnds(path, env, returncode = 0, returncode = 0)

\* storage.py 700-709 FTPStorage.delete: connect, delete, quit; True unless
\* something raised
FTPDelete ==
    /\ dBackend = "ftp"
    /\ \E path \in Paths, env \in {"ok", "fail"} :
         LET raises == env = "fail" \/ FtpDeleteRaises(path \in dFiles)
         IN  DeleteEnds(path, env, ~raises, ~raises)

NextDelete ==
    \/ LocalDelete
    \/ SSHDelete
    \/ FTPDelete

SpecDelete == InitDelete /\ [][NextDelete]_vars

\* ================================================ the settings manager ===

\* a file that json.load cannot read
Garbled == [kind |-> "corrupt", keys |-> {}, pairs |-> {}]

\* the text without the top-level keys that have no entry
DumpEntriesOnly(st) ==
    [kind |-> "json",
     keys |-> {s \in st.present : \E n \in Names : st.d[s][n] # NoEntry},
     pairs |-> {<<q[1], q[2], st.d[q[1]][q[2]]>> :
                   q \in {e \in st.present \X Names :
                             st.d[e[1]][e[2]] # NoEntry}}]

\* settings.py 38-39: json.dump(self.settings, f): the text holds the
\* top-level keys and, for every entry, its key, name and value
Dump(st) ==
    [kind |-> "json",
     keys |-> st.present,
     pairs |-> {<<q[1], q[2], st.d[q[1]][q[2]]>> :
                   q \in {e \in st.present \X Names :
                             st.d[e[1]][e[2]] # NoEntry}}]

\* settings.py 24-33 load_settings: the parsed file, or the default settings
\* when there is no file or it cannot be read
Load(file) ==
    IF file.kind = "json"
    THEN [present |-> file.keys,
          d |-> [s \in Sections |-> [n \in Names |->
                   IF \E v \in Values : <<s, n, v>> \in file.pairs
                   THEN CHOOSE v \in Values : <<s, n, v>> \in file.pairs
                   ELSE NoEntry]]]
    ELSE DefaultSettings

\* the settings with the top-level keys ks and no entry
Empty(ks) == [present |-> ks, d |-> DefaultSettings.d]

\* The files a SettingsManager can find when it is constructed: none, an
\* unreadable one, or a JSON object with any of the three keys.
ConfigFiles == {NoConfig, Garbled} \cup {Dump(Empty(ks)) : ks \in SUBSET Sections}

\* settings.py 20-22: __init__ loads the file
InitSettings ==
    /\ hasDump = FALSE
    /\ hasRestore = FALSE
    /\ CopyIdle
    /\ UploadIdle
    /\ BackupIdle
    /\ VerifyIdle
    /\ DeleteIdle
    /\ CliIdle
    /\ OthersIdle
    /\ configFile \in ConfigFiles
    /\ settings = Load(configFile)
    /\ sCalls = 0
    /\ sLast = "none"
    /\ saveFailed = FALSE

\* settings.py 35-41 save_settings: what can happen to the write: it
\* succeeds, open() raises (the file stays as it was), or the write raises
\* after open() truncated the file; the exception is printed, not raised
SaveOutcomes == {"ok", "denied", "partial"}

\* settings.py 35-41 save_settings, with the settings st to write
SaveSettings(st, outcome) ==
    /\ configFile' = CASE outcome = "ok" -> Dump(st)
                       [] outcome = "denied" -> configFile
                       [] OTHER -> Garbled
    /\ saveFailed' = (outcome # "ok")
    /\ sLast' = IF outcome = "ok" THEN "saved" ELSE "save failed"

\* the call changes nothing and ends as how says
NoMutation(how) ==
    /\ sLast' = how
    /\ UNCHANGED <<settings, configFile, saveFailed>>

\* self.settings[key][name] = value
WithEntry(st, key, name, value) ==
    [present |-> st.present \cup {key},
     d |-> [st.d EXCEPT ![key][name] = value]]

\* a mutating call is made
Called ==
    /\ sCalls < MaxOps
    /\ sCalls' = sCalls + 1
    /\ UNCHANGED <<hostVars, copyVars, upVars, bkVars, verVars, delVars,
                   cliVars, otherVars>>

\* settings.py 43-46 add_host: self.settings['hosts'] raises KeyError when
\* the loaded file had no "hosts" key
AddHost ==
    /\ Called
    /\ \E name \in Names, uri \in Values, outcome \in SaveOutcomes :
         IF "hosts" \notin settings.present
         THEN NoMutation("KeyError")
         ELSE /\ settings' = WithEntry(settings, "hosts", name, uri)
              /\ SaveSettings(settings', outcome)

\* settings.py 64-69 add_task and 88-93 add_storage: the key is created
\* when missing
AddTo(key) ==
    \E name \in Names, config \in Values, outcome \in SaveOutcomes :
        /\ settings' = WithEntry(settings, key, name, config)
        /\ SaveSettings(settings', outcome)

AddTask == Called /\ AddTo("tasks")

AddStorage == Called /\ AddTo("storages")

\* settings.py 56-62, 79-85, 103-109 delete_host, delete_task,
\* delete_storage: delete and save when the name is there, else return False
DeleteFrom(key) ==
    \E name \in Names, outcome \in SaveOutcomes :
        IF key \in settings.present /\ settings.d[key][name] # NoEntry
        THEN /\ settings' = [settings EXCEPT !.d[key][name] = NoEntry]
             /\ SaveSettings(settings', outcome)
        ELSE NoMutation("False")

DeleteHost == Called /\ DeleteFrom("hosts")

DeleteTask == Called /\ DeleteFrom("tasks")

DeleteStorage == Called /\ DeleteFrom("storages")

NextSettings ==
    \/ AddHost
    \/ DeleteHost
    \/ AddTask
    \/ DeleteTask
    \/ AddStorage
    \/ DeleteStorage

SpecSettings == InitSettings /\ [][NextSettings]_vars

\* ==================================================== the command line ===

\* the modes of cli.py main that run an operation, in the order main tests
\* for them
CliModes == {"verify_connection", "task", "backup", "restore", "copy"}

\* what the user at a click.confirm prompt can do
ClickAnswers == {"yes", "no", "eof"}

InitCli ==
    /\ hasDump = FALSE
    /\ hasRestore = FALSE
    /\ CopyIdle
    /\ UploadIdle
    /\ BackupIdle
    /\ VerifyIdle
    /\ DeleteIdle
    /\ SettingsIdle
    /\ OthersIdle
    /\ cMode \in CliModes
    /\ cYes \in BOOLEAN
    /\ cForce \in BOOLEAN
    /\ cVerify \in BOOLEAN
    /\ cColl \in BOOLEAN
    /\ cReported = "none"
    /\ cExit = -1

\* The exit code of the process for each way main is left: by return (click
\* exits 0), by sys.exit(n), by an exception nobody catches (traceback, 1),
\* by click's Abort at an unanswerable prompt (1).
ExitCode(how) ==
    CASE how = "return" -> 0
      [] how = "exit0" -> 0
      [] how = "exit1" -> 1
      [] how = "raise" -> 1
      [] how = "abort" -> 1

\* main is left as how says, having printed the failure rep
CliEnds(how, rep) ==
    /\ cExit = -1
    /\ cExit' = ExitCode(how)
    /\ cReported' = rep
    /\ UNCHANGED <<hostVars, copyVars, upVars, bkVars, verVars, delVars,
                   setVars, otherVars, cMode, cYes, cForce, cVerify, cColl>>

\* the prompt "Proceed ...?" answered no: sys.exit(0); unanswerable: Abort
Declined(answer) ==
    IF answer = "no" THEN CliEnds("exit0", "none") ELSE CliEnds("abort", "none")

\* cli.py 91-98: --verify-connection prints the outcome and returns
VerifyConnectionMode ==
    /\ cMode = "verify_connection"
    /\ \E success \in BOOLEAN :
         CliEnds("return", IF success THEN "none" ELSE "connection failed")

\* cli.py 174-202: --task
TaskMode ==
    /\ cMode = "task"
    /\ \E found \in BOOLEAN, answer \in ClickAnswers, success \in BOOLEAN :
         IF ~found
         THEN CliEnds("exit1", "task not found")
         ELSE IF ~cForce /\ ~cYes /\ answer # "yes"
         THEN Declined(answer)
         ELSE IF success
         THEN CliEnds("return", "none")
         ELSE CliEnds("exit1", "task failed")

\* cli.py 204-243 (--backup) and 245-274 (--restore): check the options,
\* ask, run the operation; a failure result is printed and exits 1, an
\* exception of the operation is not caught
ArchiveMode(failure) ==
    \E usage \in BOOLEAN, answer \in ClickAnswers,
       outcome \in {"success", "failure", "raise"} :
        IF ~usage
        THEN CliEnds("exit1", "usage")
        ELSE IF ~cYes /\ answer # "yes"
        THEN Declined(answer)
        ELSE CASE outcome = "success" -> CliEnds("return", "none")
               [] outcome = "failure" -> CliEnds("exit1", failure)
               [] outcome = "raise" -> CliEnds("raise", failure)

BackupMode == cMode = "backup" /\ ArchiveMode("backup failed")

RestoreMode == cMode = "restore" /\ ArchiveMode("restore failed")

\* cli.py 328: the verification is passed
VerificationPassed(report) == report.count_match /\ report.index_match

\* cli.py 276-341: direct copy.  connect() exits 1 when it fails, every
\* exception of the copy or of the verification is printed and exits 1, a
\* verification that does not pass is printed and main returns.
DirectCopyMode ==
    /\ cMode = "copy"
    /\ \E source_db \in BOOLEAN, answer \in ClickAnswers, connected \in BOOLEAN,
          copy \in {"done", "raise"}, verification \in {"done", "raise"},
          count_match \in BOOLEAN, index_match \in BOOLEAN :
         IF ~source_db
         THEN CliEnds("exit1", "usage")
         ELSE IF ~cYes /\ answer # "yes"
         THEN Declined(answer)
         ELSE IF ~connected
         THEN CliEnds("exit1", "connection failed")
         ELSE IF copy = "raise"
         THEN CliEnds("exit1", "copy failed")
         ELSE IF ~(cVerify /\ cColl)
         THEN CliEnds("return", "none")
         ELSE IF verification = "raise"
         THEN CliEnds("exit1", "copy failed")
         ELSE IF VerificationPassed([count_match |-> count_match,
                                     index_match |-> index_match])
         THEN CliEnds("return", "none")
         ELSE CliEnds("return", "verification mismatch")

NextCli ==
    \/ VerifyConnectionMode
    \/ TaskMode
    \/ BackupMode
    \/ RestoreMode
    \/ DirectCopyMode

SpecCli == InitCli /\ [][NextCli]_vars

\* ============================================ the selection parser ===

\* the characters of the selection strings of the model: digits, the two
\* separators, a blank, and two letters
Chars == {"0", "1", "3", ",", "-", " ", "A", "l"}

Digits == {"0", "1", "3"}

DigitValue(c) == CASE c = "0" -> 0 [] c = "1" -> 1 [] c = "3" -> 3

Selections == UNION {[1 .. n -> Chars] : n \in 0 .. MaxSel}

InitParse ==
    /\ hasDump = FALSE
    /\ hasRestore = FALSE
    /\ CopyIdle
    /\ UploadIdle
    /\ BackupIdle
    /\ VerifyIdle
    /\ DeleteIdle
    /\ SettingsIdle
    /\ CliIdle
    /\ TwiceIdle
    /\ PipeIdle
    /\ MultiIdle
    /\ TaskIdle
    /\ selection \in Selections
    /\ max_value \in 0 .. MaxValue
    /\ parseResult = NoParse

\* str.upper() on one character
Upper(c) == IF c = "l" THEN "L" ELSE c

\* utils.py 125: selection.upper() == 'ALL'
IsAll(str) ==
    /\ Len(str) = 3
    /\ Upper(str[1]) = "A"
    /\ Upper(str[2]) = "L"
    /\ Upper(str[3]) = "L"

\* str.split(sep): the pieces between the occurrences of sep
RECURSIVE Split(_, _)
Split(str, sep) ==
    IF \A i \in 1 .. Len(str) : str[i] # sep
    THEN <<str>>
    ELSE LET k == CHOOSE i \in 1 .. Len(str) :
                      str[i] = sep /\ \A j \in 1 .. i - 1 : str[j] # sep
         IN  <<SubSeq(str, 1, k - 1)>> \o Split(SubSeq(str, k + 1, Len(str)), sep)

\* str.strip(): leading and trailing blanks removed
RECURSIVE Strip(_)
Strip(str) ==
    IF str = <<>> THEN <<>>
    ELSE IF Head(str) = " " THEN Strip(Tail(str))
    ELSE IF str[Len(str)] = " " THEN Strip(SubSeq(str, 1, Len(str) - 1))
    ELSE str

\* int(str) raises ValueError: int() strips blanks and then wants digits
\* (no sign reaches it: the callers split on '-')
IntRaises(str) ==
    LET t == Strip(str)
    IN  t = <<>> \/ \E i \in 1 .. Len(t) : t[i] \notin Digits

\* int(str) for a string it accepts
RECURSIVE Decimal(_)
Decimal(t) ==
    IF t = <<>> THEN 0
    ELSE 10 * Decimal(SubSeq(t, 1, Len(t) - 1)) + DigitValue(t[Len(t)])

IntOf(str) == Decimal(Strip(str))

\* sorted(list(set(...)))
RECURSIVE Sorted(_)
Sorted(S) ==
    IF S = {} THEN <<>>
    ELSE LET m == CHOOSE x \in S : \A y \in S : x <= y
         IN  <<m>> \o Sorted(S \ {m})

\* utils.py 132-149: what one part of the selection adds to indices, or that
\* it makes the call raise.  The unpacking of part.split('-') stands outside
\* the try block, so a part with two or more '-' raises ValueError to the
\* caller.
PartIndices(part0, max) ==
    LET part == Strip(part0) IN
    IF \E i \in 1 .. Len(part) : part[i] = "-"
    THEN LET se == Split(part, "-") IN
         IF Len(se) # 2
         THEN [raised |-> TRUE, add |-> {}]
         ELSE IF IntRaises(se[1]) \/ IntRaises(se[2])
         THEN [raised |-> FALSE, add |-> {}]
         ELSE [raised |-> FALSE, add |-> (IntOf(se[1]) - 1) .. (IntOf(se[2]) - 1)]
    ELSE IF IntRaises(part)
         THEN [raised |-> FALSE, add |-> {}]
         ELSE LET idx == IntOf(part) - 1 IN
              [raised |-> FALSE,
               add |-> IF 0 <= idx /\ idx < max THEN {idx} ELSE {}]

\* utils.py 121-152
ParseSelection(str, max) ==
    IF IsAll(str)
    THEN [raised |-> FALSE, indices |-> [i \in 1 .. max |-> i - 1]]
    ELSE LET parts == Split(str, ",")
             each == [i \in 1 .. Len(parts) |-> PartIndices(parts[i], max)]
         IN  IF \E i \in 1 .. Len(parts) : each[i].raised
             THEN [raised |-> TRUE, indices |-> <<>>]
             ELSE [raised |-> FALSE,
                   indices |-> Sorted(UNION {each[i].add : i \in 1 .. Len(parts)})]

parse_collection_selection ==
    /\ parseResult = NoParse
    /\ parseResult' = ParseSelection(selection, max_value)
    /\ UNCHANGED <<hostVars, copyVars, upVars, bkVars, verVars, delVars,
                   setVars, cliVars, twiceVars, pipeVars, multiVars, taskVars,
                   selection, max_value>>

NextParse == parse_collection_selection

SpecParse == InitParse /\ [][NextParse]_vars

\* ===================================== the pipeline of copy_with_mongodump ===

\* Both tools are on the host and copy_with_mongodump is about to start the
\* two processes; the dump has any amount of output to write.
InitPipe ==
    /\ hasDump = TRUE
    /\ hasRestore = TRUE
    /\ CopyIdle
    /\ UploadIdle
    /\ BackupIdle
    /\ VerifyIdle
    /\ DeleteIdle
    /\ SettingsIdle
    /\ CliIdle
    /\ TwiceIdle
    /\ ParseIdle
    /\ MultiIdle
    /\ TaskIdle
    /\ ppc = "popen_dump"
    /\ dump_process = "none"
    /\ restore_process = "none"
    /\ dumpCode = -1
    /\ restoreCode = -1
    /\ toWrite \in 0 .. MaxChunks
    /\ pipeData = 0
    /\ stdoutOpen = FALSE
    /\ pipeResult = "none"

\* everything but the pipeline
notPipe == <<hostVars, copyVars, upVars, bkVars, verVars, delVars, setVars,
             cliVars, twiceVars, parseVars, multiVars, taskVars>>

\* core.py 243-245: any exception of the try block is printed, False returned
PipelineRaises ==
    /\ ppc' = "returned"
    /\ pipeResult' = "False"

\* core.py 235: dump_process = Popen(dump_cmd, stdout=PIPE); the orchestrator
\* keeps the read end of the pipe as dump_process.stdout
PopenDump ==
    /\ ppc = "popen_dump"
    /\ \E started \in BOOLEAN :
         IF started
         THEN /\ dump_process' = "running"
              /\ stdoutOpen' = TRUE
              /\ ppc' = "popen_restore"
              /\ UNCHANGED pipeResult
         ELSE /\ PipelineRaises
              /\ UNCHANGED <<dump_process, stdoutOpen>>
    /\ UNCHANGED <<notPipe, restore_process, dumpCode, restoreCode, toWrite,
                   pipeData>>

\* core.py 236: restore_process = Popen(restore_cmd, stdin=dump_process.stdout)
PopenRestore ==
    /\ ppc = "popen_restore"
    /\ \E started \in BOOLEAN :
         IF started
         THEN /\ restore_process' = "running"
              /\ ppc' = "close"
              /\ UNCHANGED pipeResult
         ELSE /\ PipelineRaises
              /\ UNCHANGED restore_process
    /\ UNCHANGED <<notPipe, dump_process, dumpCode, restoreCode, toWrite,
                   pipeData, stdoutOpen>>

\* core.py 238: dump_process.stdout.close()
CloseStdout ==
    /\ ppc = "close"
    /\ stdoutOpen' = FALSE
    /\ ppc' = "communicate"
    /\ UNCHANGED <<notPipe, dump_process, restore_process, dumpCode,
                   restoreCode, toWrite, pipeData, pipeResult>>

\* the value copy_with_mongodump returns once communicate() is over
ReturnValue(dump_code, restore_code) ==
    IF PipelineSuccess(dump_code, restore_code) THEN "True" ELSE "False"

\* core.py 239-241: restore_process.communicate() waits for the restore
\* process (and for no other), then the return code is compared with 0
Communicate ==
    /\ ppc = "communicate"
    /\ restore_process = "exited"
    /\ ppc' = "returned"
    /\ pipeResult' = ReturnValue(dumpCode, restoreCode)
    /\ UNCHANGED <<notPipe, dump_process, restore_process, dumpCode,
                   restoreCode, toWrite, pipeData, stdoutOpen>>

\* some process holds the read end of the pipe
HasReader == stdoutOpen \/ restore_process = "running"

\* the dump process writes a chunk; a full pipe makes it wait
DumpWrites ==
    /\ dump_process = "running"
    /\ toWrite > 0
    /\ HasReader
    /\ pipeData < MaxPipe
    /\ toWrite' = toWrite - 1
    /\ pipeData' = pipeData + 1
    /\ UNCHANGED <<notPipe, ppc, dump_process, restore_process, dumpCode,
                   restoreCode, stdoutOpen, pipeResult>>

\* the dump process exits: with 0 when everything is written, with an error
\* at any time, and by SIGPIPE when it writes to a pipe nobody reads
DumpExits ==
    /\ dump_process = "running"
    /\ \E code \in {0, 1} :
         /\ code = 0 => toWrite = 0
         /\ (toWrite > 0 /\ ~HasReader) => code = 1
         /\ dumpCode' = code
    /\ dump_process' = "exited"
    /\ UNCHANGED <<notPipe, ppc, restore_process, restoreCode, toWrite,
                   pipeData, stdoutOpen, pipeResult>>

\* the restore process reads a chunk
RestoreReads ==
    /\ restore_process = "running"
    /\ pipeData > 0
    /\ pipeData' = pipeData - 1
    /\ UNCHANGED <<notPipe, ppc, dump_process, restore_process, dumpCode,
                   restoreCode, toWrite, stdoutOpen, pipeResult>>

\* the restore process exits: at end of input (the pipe empty and its write
\* end, held by the dump process alone, closed), or with an error at any time
RestoreExits ==
    /\ restore_process = "running"
    /\ \E code \in {0, 1} :
         /\ code = 0 => (pipeData = 0 /\ dump_process = "exited")
         /\ restoreCode' = code
    /\ restore_process' = "exited"
    /\ UNCHANGED <<notPipe, ppc, dump_process, dumpCode, toWrite, pipeData,
                   stdoutOpen, pipeResult>>

NextPipe ==
    \/ PopenDump
    \/ PopenRestore
    \/ CloseStdout
    \/ Communicate
    \/ DumpWrites
    \/ DumpExits
    \/ RestoreReads
    \/ RestoreExits

SpecPipe == InitPipe /\ [][NextPipe]_vars

\* the orchestrator and the two processes each go on when they can
FairSpecPipe ==
    /\ SpecPipe
    /\ WF_vars(PopenDump)
    /\ WF_vars(PopenRestore)
    /\ WF_vars(CloseStdout)
    /\ WF_vars(Communicate)
    /\ WF_vars(DumpWrites)
    /\ WF_vars(DumpExits)
    /\ WF_vars(RestoreReads)
    /\ WF_vars(RestoreExits)

\* ================================== copies of several collections at once ===

\* A copier is about to copy a list of collections, or a whole database,
\* between any source database and any target database.
InitMulti ==
    /\ hasDump \in BOOLEAN
    /\ hasRestore = hasDump
    /\ CopyIdle
    /\ UploadIdle
    /\ BackupIdle
    /\ VerifyIdle
    /\ DeleteIdle
    /\ SettingsIdle
    /\ CliIdle
    /\ TwiceIdle
    /\ ParseIdle
    /\ PipeIdle
    /\ TaskIdle
    /\ mKind \in {"multiple", "entire"}
    /\ sourceColls \in [Colls -> Counts]
    /\ targetColls \in [Colls -> Counts]
    /\ backups = NoColls
    /\ backup_name = "None"
    /\ collections \in IF mKind = "multiple" THEN CollLists ELSE {<<>>}
    /\ create_backup \in BOOLEAN
    /\ mDropTarget \in BOOLEAN
    /\ mForce \in BOOLEAN
    /\ mpc = "start"
    /\ mTodo = <<>>
    /\ prompts = <<>>
    /\ results = {}
    /\ dbDrops = 0
    /\ targetColls0 = targetColls

\* everything but the call on several collections
notMulti == <<hostVars, copyVars, upVars, bkVars, verVars, delVars, setVars,
              cliVars, twiceVars, parseVars, pipeVars, taskVars>>

\* the backup step skipped whatever the arguments
BackupNever(backup, drop) == FALSE

\* core.py 300: if create_backup and drop_target
BackupFirst(backup, drop) == backup /\ drop

\* core.py 297-300: copy_multiple_collections starts
MultipleStart ==
    /\ mKind = "multiple"
    /\ mpc = "start"
    /\ mTodo' = collections
    /\ mpc' = IF BackupFirst(create_backup, mDropTarget) THEN "m_backup" ELSE "copy"
    /\ UNCHANGED <<notMulti, mKind, sourceColls, targetColls, backups,
                   backup_name, collections, create_backup, mDropTarget,
                   mForce, prompts, results, dbDrops, targetColls0>>

\* core.py 302-305 with backup_before_copy (251-272): one turn of the backup
\* loop.  A listed collection that exists in the target database is copied,
\* documents and indexes, into a new collection <name>_backup_<timestamp>;
\* what insert_many or create_index raises ends the call.
MultipleBackup ==
    /\ mpc = "m_backup"
    /\ IF mTodo = <<>>
       THEN /\ mpc' = "copy"
            /\ mTodo' = collections
            /\ UNCHANGED backups
       ELSE LET coll == Head(mTodo) IN
            /\ mTodo' = Tail(mTodo)
            /\ IF targetColls[coll] >= 0
               THEN \E raises \in BOOLEAN :
                      IF raises
                      THEN /\ mpc' = "raised"
                           /\ UNCHANGED backups
                      ELSE /\ backups' = [backups EXCEPT ![coll] = targetColls[coll]]
                           /\ UNCHANGED mpc
               ELSE UNCHANGED <<backups, mpc>>
    /\ UNCHANGED <<notMulti, mKind, sourceColls, targetColls, backup_name,
                   collections, create_backup, mDropTarget, mForce, prompts,
                   results, dbDrops, targetColls0>>

\* the list of the names in S, in the order of list_collection_names()
ListOf(S) == CHOOSE l \in CollLists : Range(l) = S

\* core.py 337-345: copy_entire_database lists the source's collections
EntireStart ==
    /\ mKind = "entire"
    /\ mpc = "start"
    /\ collections' = ListOf({c \in Colls : sourceColls[c] >= 0})
    /\ mpc' = "e_backup"
    /\ UNCHANGED <<notMulti, mKind, sourceColls, targetColls, backups,
                   backup_name, create_backup, mDropTarget, mForce, mTodo,
                   prompts, results, dbDrops, targetColls0>>

\* target_db in self.target_client.list_database_names()
TargetDbExists == \E c \in Colls : targetColls[c] >= 0

\* core.py 348-351 with backup_before_copy (273-282): with force, or when the
\* user agrees, the target database is dumped into an archive when mongodump
\* is on the host (a failing run raises: check=True), and the empty name
\* comes back when it is not.
EntireBackup ==
    /\ mpc = "e_backup"
    /\ IF create_backup /\ TargetDbExists
       THEN \E answer \in Answers, dumped \in BOOLEAN :
              /\ prompts' = IF mForce THEN prompts
                            ELSE Append(prompts, "backup database")
              /\ IF ~mForce /\ answer = "eof"
                 THEN /\ mpc' = "raised"
                      /\ UNCHANGED backup_name
                 ELSE IF ~mForce /\ answer = "no"
                 THEN /\ mpc' = "e_drop"
                      /\ UNCHANGED backup_name
                 ELSE IF ~hasDump
                 THEN /\ backup_name' = ""
                      /\ mpc' = "e_drop"
                 ELSE IF dumped
                 THEN /\ backup_name' = "archive"
                      /\ mpc' = "e_drop"
                 ELSE /\ mpc' = "raised"
                      /\ UNCHANGED backup_name
       ELSE /\ mpc' = "e_drop"
            /\ UNCHANGED <<prompts, backup_name>>
    /\ UNCHANGED <<notMulti, mKind, sourceColls, targetColls, backups,
                   collections, create_backup, mDropTarget, mForce, mTodo,
                   results, dbDrops, targetColls0>>

\* core.py 353-359: with drop_target, and force or the user's agreement, the
\* target database is dropped; the loop over the collections follows.
EntireDrop ==
    /\ mpc = "e_drop"
    /\ mTodo' = collections
    /\ IF mDropTarget
       THEN \E answer \in Answers :
              /\ prompts' = IF mForce THEN prompts
                            ELSE Append(prompts, "drop database")
              /\ IF ~mForce /\ answer = "eof"
                 THEN /\ mpc' = "raised"
                      /\ UNCHANGED <<targetColls, dbDrops>>
                 ELSE IF ~mForce /\ answer = "no"
                 THEN /\ mpc' = "copy"
                      /\ UNCHANGED <<targetColls, dbDrops>>
                 ELSE /\ targetColls' = NoColls
                      /\ dbDrops' = dbDrops + 1
                      /\ mpc' = "copy"
       ELSE /\ mpc' = "copy"
            /\ UNCHANGED <<prompts, targetColls, dbDrops>>
    /\ UNCHANGED <<notMulti, mKind, sourceColls, backups, backup_name,
                   collections, create_backup, mDropTarget, mForce, results,
                   targetColls0>>

\* What one copy_collection_with_indexes(db, coll, db, coll, drop_target=drop,
\* force=frc) call does to the collection coll of the target database, the
\* summary of the copy engine above:
\*   asks:    the drop prompts it shows (one, or two on a fallback from the
\*            tools), none with force or without documents to drop
\*   dropped: the target collection was dropped
\*   w:       the source documents written to the target
\*   made:    the target collection exists although it holds no document
\*   ended:   it returned a result, or raised (a write error, a prompt that
\*            could not be answered); a call that returns has written every
\*            source document, unless the tools are there and it took the
\*            word of a restore process that exited 0
CopyCollectionWithIndexes(coll, drop, frc, ended) ==
    LET count == targetColls[coll]
        handled == drop /\ count > 0
        source == IF sourceColls[coll] < 0 THEN 0 ELSE sourceColls[coll]
    IN  \E asks \in IF handled /\ ~frc
                    THEN {<<"drop collection">>,
                          <<"drop collection", "drop collection">>}
                    ELSE {<<>>},
           dropped \in BOOLEAN, w \in 0 .. source, made \in BOOLEAN :
          /\ Len(asks) = 2 => hasDump
          /\ dropped => handled
          /\ (handled /\ frc) => dropped
          /\ ended = "returned" => (w = source \/ hasDump)
          /\ prompts' = prompts \o asks
          /\ LET base == IF dropped \/ count < 0 THEN 0 ELSE count
                 absent == dropped \/ count < 0
             IN  targetColls' =
                   [targetColls EXCEPT ![coll] =
                      IF absent /\ w = 0 /\ ~made THEN -1 ELSE base + w]

\* core.py 311-323 and 361-372: one turn of the loop over the collections.
\* copy_multiple_collections hands its drop_target on, copy_entire_database
\* passes drop_target=False.
CopyEach ==
    /\ mpc = "copy"
    /\ IF mTodo = <<>>
       THEN /\ mpc' = "returned"
            /\ UNCHANGED <<mTodo, targetColls, prompts, results>>
       ELSE LET collection_name == Head(mTodo) IN
            \E ended \in {"returned", "raised"} :
              /\ CopyCollectionWithIndexes(collection_name,
                                           mKind = "multiple" /\ mDropTarget,
                                           mForce, ended)
              /\ mTodo' = Tail(mTodo)
              /\ IF ended = "returned"
                 THEN /\ results' = results \cup {collection_name}
                      /\ UNCHANGED mpc
                 ELSE /\ mpc' = "raised"
                      /\ UNCHANGED results
    /\ UNCHANGED <<notMulti, mKind, sourceColls, backups, backup_name,
                   collections, create_backup, mDropTarget, mForce, dbDrops,
                   targetColls0>>

NextMulti ==
    \/ MultipleStart
    \/ MultipleBackup
    \/ EntireStart
    \/ EntireBackup
    \/ EntireDrop
    \/ CopyEach

SpecMulti == InitMulti /\ [][NextMulti]_vars

\* ================================================ the run of a saved task ===

\* The shapes of source_collection in a saved copy task: one name (the
\* collection "a"), the list of names the wizard saves for a copy of several
\* collections (["a", "b"]), or nothing for a whole database.
TaskShapes == {"name", "list", "none"}

\* the names a task of each shape tells to copy
Named(shape) ==
    CASE shape = "name" -> {"a"}
      [] shape = "list" -> {"a", "b"}
      [] shape = "none" -> {c \in Colls : sourceColls[c] >= 0}

\* `mw --task <name>` with any flags, for a saved copy task of any shape,
\* between any source database and any target database.
InitTask ==
    /\ hasDump \in BOOLEAN
    /\ hasRestore = hasDump
    /\ CopyIdle
    /\ UploadIdle
    /\ BackupIdle
    /\ VerifyIdle
    /\ DeleteIdle
    /\ SettingsIdle
    /\ TwiceIdle
    /\ ParseIdle
    /\ PipeIdle
    /\ cMode = "task"
    /\ cYes \in BOOLEAN
    /\ cForce \in BOOLEAN
    /\ cVerify = FALSE
    /\ cColl = FALSE
    /\ cReported = "none"
    /\ cExit = -1
    /\ mKind = "none"
    /\ sourceColls \in [Colls -> Counts]
    /\ targetColls \in [Colls -> Counts]
    /\ backups = NoColls
    /\ backup_name = "None"
    /\ collections = <<>>
    /\ create_backup = FALSE
    /\ mDropTarget = FALSE
    /\ mForce = FALSE
    /\ mpc = "idle"
    /\ mTodo = <<>>
    /\ prompts = <<>>
    /\ results = {}
    /\ dbDrops = 0
    /\ targetColls0 = targetColls
    /\ task_config \in [source_collection : TaskShapes, drop_target : BOOLEAN]
    /\ tpc = "confirm"
    /\ taskSuccess = "none"

\* what a step of the task run outside the copier leaves alone
taskRest == <<hostVars, copyVars, upVars, bkVars, verVars, delVars, setVars,
              twiceVars, parseVars, pipeVars, cMode, cYes, cForce, cVerify,
              cColl, task_config, sourceColls, backups, backup_name,
              collections, mTodo, dbDrops, targetColls0>>

\* the process ends as how says, having printed the failure rep
TaskEnds(how, rep) ==
    /\ cExit' = ExitCode(how)
    /\ cReported' = rep
    /\ tpc' = "exited"

\* cli.py 189-192: the task is run without question with --force or --yes
TaskConfirm ==
    /\ tpc = "confirm"
    /\ IF ~cForce /\ ~cYes
       THEN \E answer \in ClickAnswers :
              /\ prompts' = Append(prompts, "execute task")
              /\ CASE answer = "yes" -> /\ tpc' = "run"
                                        /\ UNCHANGED <<cExit, cReported>>
                   [] answer = "no" -> TaskEnds("exit0", "none")
                   [] answer = "eof" -> TaskEnds("abort", "none")
       ELSE /\ tpc' = "run"
            /\ UNCHANGED <<prompts, cExit, cReported>>
    /\ UNCHANGED <<taskRest, mKind, targetColls, create_backup, mDropTarget,
                   mForce, mpc, results, taskSuccess>>

\* self.source_client[source_db][source_coll] raises TypeError: the driver
\* takes a str for a collection name
NameRejected(shape) == shape = "list"

\* cli.py 195 with run_task and run_copy_task (task_runner.py 16-78): the
\* copier connects (a failure exits 1), then a task with a source_collection
\* is handed to copy_collection_with_indexes and one without to
\* copy_entire_database, both with force=assume_yes; every exception ends
\* the task with False.
RunCopyTask ==
    /\ tpc = "run"
    /\ \E connected \in BOOLEAN, ended \in {"returned", "raised"} :
         IF ~connected
         THEN /\ TaskEnds("exit1", "connection failed")
              /\ UNCHANGED <<mKind, targetColls, mDropTarget, mForce, mpc,
                             prompts, results, taskSuccess>>
         ELSE IF task_config.source_collection = "none"
         THEN /\ mKind' = "entire"
              /\ mDropTarget' = task_config.drop_target
              /\ mForce' = cYes
              /\ mpc' = "start"
              /\ tpc' = "copying"
              /\ UNCHANGED <<targetColls, prompts, results, taskSuccess,
                             cExit, cReported>>
         ELSE IF NameRejected(task_config.source_collection)
         THEN /\ taskSuccess' = "False"
              /\ tpc' = "ended"
              /\ UNCHANGED <<mKind, targetColls, mDropTarget, mForce, mpc,
                             prompts, results, cExit, cReported>>
         ELSE /\ CopyCollectionWithIndexes("a", task_config.drop_target,
                                           cYes, ended)
              /\ results' = IF ended = "returned" THEN {"a"} ELSE {}
              /\ taskSuccess' = IF ended = "returned" THEN "True" ELSE "False"
              /\ tpc' = "ended"
              /\ UNCHANGED <<mKind, mDropTarget, mForce, mpc, cExit,
                             cReported>>
    /\ UNCHANGED <<taskRest, create_backup>>

\* task_runner.py 69-76: copy_entire_database has returned or raised
TaskCopied ==
    /\ tpc = "copying"
    /\ mpc \in {"returned", "raised"}
    /\ taskSuccess' = IF mpc = "returned" THEN "True" ELSE "False"
    /\ tpc' = "ended"
    /\ UNCHANGED <<taskRest, mKind, targetColls, create_backup, mDropTarget,
                   mForce, mpc, prompts, results, cExit, cReported>>

\* cli.py 197-202
TaskExit ==
    /\ tpc = "ended"
    /\ IF taskSuccess = "True"
       THEN TaskEnds("return", "none")
       ELSE TaskEnds("exit1", "task failed")
    /\ UNCHANGED <<taskRest, mKind, targetColls, create_backup, mDropTarget,
                   mForce, mpc, prompts, results, taskSuccess>>

NextTask ==
    \/ TaskConfirm
    \/ RunCopyTask
    \/ EntireStart
    \/ EntireBackup
    \/ EntireDrop
    \/ CopyEach
    \/ TaskCopied
    \/ TaskExit

SpecTask == InitTask /\ [][NextTask]_vars

\* ------------------------------------------------ claims on the copy engine

NoConfirmation == asked # <<>> /\ "yes" \notin Range(asked)

\* C1: a drop requested on a target that holds documents, without force and
\* without a confirmation (the prompt declined or unanswerable), makes the
\* call fail: the target is not dropped, nothing is written to it and no
\* CopyResult is returned.
C1_UnconfirmedDropFails ==
    (drop_target /\ tgtDocs0 # {} /\ ~force /\ NoConfirmation)
        => /\ pc = "raised"
           /\ drops = 0
           /\ inserts = 0
           /\ tgtDocs = tgtDocs0
           /\ tgtIdx = tgtIdx0
           /\ result = NoResult

\* C2: the documents_copied of every returned CopyResult is the number of
\* documents the target collection holds right after the call.
C2_DocumentsCopiedIsTargetCount ==
    pc = "returned" => result.documents_copied = Cardinality(tgtDocs)

NativeProcessFailed == dumpExit > 0 \/ restoreExit > 0

\* C3: when the dump or the restore process exits non-zero the call does not
\* fail and does not report the native method: it returns a CopyResult whose
\* method is the driver copy.
C3_NativeFailureFallsBack ==
    NativeProcessFailed
        => /\ pc # "raised"
           /\ pc = "returned" => result.method = "python"

\* C4: a returned CopyResult names the native method exactly when both
\* binaries are on the host, force_python is not set and the native pipeline
\* (dump and restore) succeeded; otherwise it names the driver copy.
C4_MethodNamesTransfer ==
    pc = "returned"
        => /\ result.method \in {"mongodump", "python"}
           /\ result.method = "mongodump"
                <=> (hasDump /\ hasRestore /\ ~force_python
                     /\ dumpExit = 0 /\ restoreExit = 0)

\* C5: with the dump or the restore binary missing no external process is
\* started at any point of the call, and a returned CopyResult names the
\* driver copy.
C5_NoToolsNoProcess ==
    (~hasDump \/ ~hasRestore)
        => /\ spawned = 0
           /\ pc = "returned" => result.method = "python"

\* C5 witness: a driver copy that transferred documents and returned on a
\* host with mongodump but without mongorestore, force_python not set.
C5_Witness ==
    /\ hasDump /\ ~hasRestore /\ ~force_python
    /\ pc = "returned"
    /\ result.method = "python"
    /\ result.documents_copied > 0
    /\ spawned = 0

\* --------------------------------------------------- claims on the storage

\* C6: upload returns success only if the file at the remote path has the
\* size of the local file and that size could be read; a zero or unreadable
\* remote size gives failure even when the transfer command reported success.
C6_UploadSuccessMeansSameSize ==
    upResult = "success"
        => /\ upRemoteSize = upLocalSize
           /\ upSizeRead # "unreadable"

\* ------------------------------------------- claims on the backup manager

BkEnded == bpc \in {"done", "raised"}

\* C7: backup_database and restore_database create one scratch directory,
\* and however the call ends after that (a returned result or an exception)
\* the directory no longer exists.
C7_ScratchRemovedOnEveryExit ==
    /\ tempCreated <= 1
    /\ BkEnded => ~tempDir

\* C7 witness: a backup that created its scratch directory and ended in an
\* exception (tar.add on a dump directory that was never written), and the
\* directory is gone.
C7_Witness ==
    /\ bop = "backup"
    /\ bpc = "raised"
    /\ tempCreated = 1
    /\ bDumpFailed
    /\ ~tempDir

\* C8: when a mongodump run of backup_database exits non-zero or cannot be
\* run, no archive is uploaded and the call never returns success: the
\* failure it returns is not the upload failure.
C8_DumpFailureIsReported ==
    (bop = "backup" /\ bDumpFailed)
        => /\ bUploads = 0
           /\ bpc = "done" => /\ ~bresult.success
                              /\ bresult.error # "Storage upload failed"

BkNothingDone ==
    /\ bProcs = 0
    /\ bArchives = 0
    /\ bUploads = 0
    /\ bDownloads = 0
    /\ bDrops = 0
    /\ bRestoreRuns = 0
    /\ mongo = mongo0
    /\ storageFile = storage0

\* C9: backup_database without mongodump and restore_database without
\* mongorestore return a failure result and do nothing else: no external
\* process, no archive created, uploaded or downloaded, no database dropped
\* or written.
C9_MissingToolIsFatal ==
    /\ (bop = "backup" /\ ~hasDump)
          => /\ BkNothingDone
             /\ bpc \in {"b_tools", "done"}
             /\ bpc = "done" => ~bresult.success
    /\ (bop = "restore" /\ ~hasRestore)
          => /\ BkNothingDone
             /\ bpc = "done"
             /\ ~bresult.success

\* C9 witness: a backup on a host without mongodump, connected to a server
\* that holds documents, has returned "mongodump not found".
C9_Witness ==
    /\ bop = "backup"
    /\ ~hasDump
    /\ bpc = "done"
    /\ bresult = Failure("mongodump not found")
    /\ mongo["shop"]["a"] > 0
    /\ BkNothingDone

\* C10: restore_database with drop_target drops the target database only
\* after the archive was downloaded, extracted and found to hold a database
\* directory; when the download fails or the archive holds no database
\* directory the call returns a failure result ("Invalid backup file" in
\* the second case), the server is left as it was and mongorestore is not
\* started.
C10_DropOnlyAfterValidArchive ==
    (bop = "restore" /\ bDrop)
        => /\ bDrops > 0 => (bDownloads > 0 /\ ~bDownloadFailed
                             /\ bExtract = "founddb")
           /\ (bDownloadFailed \/ bExtract = "nodbdir")
                => /\ mongo = mongo0
                   /\ bRestoreRuns = 0
                   /\ bpc = "done"
                   /\ ~bresult.success
                   /\ bExtract = "nodbdir"
                        => bresult.error = "Invalid backup file"

\* a restore_database call that followed a successful backup_database of
\* database bDb has returned success, its target database named and not bDb
RoundTripDone ==
    /\ bop = "restore"
    /\ bDb # "none"
    /\ bTarget \notin {"none", bDb}
    /\ bpc = "done"
    /\ bresult.success

\* C11 as stated: after a backup of S and a restore of that archive to a
\* target T other than S, every collection of the archive is in T with the
\* document count it had in S at backup time, and S is as it was, whatever
\* T held before and whether or not drop_target is set.
C11_RoundTripAnyTarget ==
    RoundTripDone
        => /\ \A c \in Colls :
                dumpDir.colls[c] >= 0
                    => /\ mongo0[bDb][c] >= 0
                       /\ mongo[bTarget][c] = mongo0[bDb][c]
           /\ mongo[bDb] = mongo0[bDb]

\* C11, amended: the same, for the collections of the archive that T held no
\* document of before the restore, and for all of them when drop_target is
\* set.
C11_RoundTrip ==
    RoundTripDone
        => /\ \A c \in Colls :
                (dumpDir.colls[c] >= 0 /\ (bDrop \/ mongo0[bTarget][c] <= 0))
                    => /\ mongo0[bDb][c] >= 0
                       /\ mongo[bTarget][c] = mongo0[bDb][c]
           /\ mongo[bDb] = mongo0[bDb]

\* C11 witness: "shop" with documents in both collections was backed up and
\* restored with drop_target to "shop_restored", which held other data.
C11_Witness ==
    /\ RoundTripDone
    /\ bDb = "shop"
    /\ bDrop
    /\ mongo0["shop"]["a"] > 0
    /\ dumpDir.colls["a"] > 0
    /\ dumpDir.colls["b"] >= 0
    /\ mongo0["shop_restored"]["a"] > 0
    /\ mongo["shop_restored"]["a"] = mongo0["shop"]["a"]

\* ---------------------------------------- claims on the index replication

\* the call was left by an exception raised neither by a prompt nor by
\* insert_many
RaisedInCopyIndexes ==
    /\ pc = "raised"
    /\ insertErrors = 0
    /\ asked = <<>> \/ asked[Len(asked)] # "eof"

\* C12: a create_index that raises is not propagated to the caller and does
\* not stop the loop: once copy_indexes has returned, create_index was called
\* for every source index besides _id_ and the returned count is the number
\* of calls that did not raise; the document transfer then runs, and a
\* returned result reports every source document copied.
C12_IndexFailureIsSkipped ==
    /\ ~RaisedInCopyIndexes
    /\ (pc = "p_loop" \/ (pc = "returned" /\ result.method = "python"))
          => /\ idxTried = srcIdx
             /\ indexes_created = Cardinality(idxTried \ idxFailed)
    /\ (pc = "returned" /\ result.method = "python")
          => /\ result.indexes_created = Cardinality(srcIdx \ idxFailed)
             /\ result.documents_copied = Cardinality(srcDocs)

\* C12 witness: the creation of the first index failed, the second index was
\* created all the same, and the call returned after it copied documents.
C12_Witness ==
    /\ 1 \in idxFailed
    /\ 2 \in idxTried \ idxFailed
    /\ 2 \in tgtIdx
    /\ pc = "returned"
    /\ result.indexes_created = 1
    /\ result.documents_copied > 0

\* list_indexes() of the target: the _id_ index and the others when the
\* collection exists, nothing when it does not
TargetIndexCount == IF tgtExists THEN Cardinality(tgtIdx) + 1 ELSE 0

\* the target held nothing when the call started, or the call dropped it
TargetStartsFresh == (tgtDocs0 = {} /\ tgtIdx0 = {}) \/ drops > 0

\* C13: after a copy into a target that was absent or dropped at the start,
\* from a source with N indexes besides _id_ and with no index creation
\* failed, the target has N + 1 indexes and the result reports N created;
\* the _id_ index is never handed to create_index.
C13_IndexParity ==
    /\ 0 \notin idxTried
    /\ (pc = "returned" /\ TargetStartsFresh /\ idxFailed = {})
          => /\ TargetIndexCount = Cardinality(srcIdx) + 1
             /\ result.indexes_created = Cardinality(srcIdx)

\* C17: a copy of a source with 0 documents into a target that was absent or
\* dropped at the start returns documents_copied = 0 and leaves the target
\* collection existing and empty, on either path and whatever indexes the
\* source has.
C17_EmptyCopyCreatesTarget ==
    (pc = "returned" /\ srcDocs = {} /\ TargetStartsFresh)
        => /\ result.documents_copied = 0
           /\ tgtDocs = {}
           /\ tgtExists

\* ------------------------------------------ claims on the document transfer

\* the source documents the cursor had not yet yielded when the call ended
NotReached == {d \in srcDocs : d > cursor}

\* C14: when an insert_many of the driver copy raises, the call is left by
\* that exception: no CopyResult is returned, no further insert_many is
\* issued, and no document that comes after the failing batch is written.
C14_InsertErrorPropagates ==
    insertErrors > 0
        => /\ pc = "raised"
           /\ result = NoResult
           /\ insertErrors = 1
           /\ InsertRaises(lastBatch)
           /\ lastBatch # <<>> /\ lastBatch[Len(lastBatch)] = cursor
           /\ (NotReached \cap tgtDocs) \subseteq tgtBefore

\* C14 witness: the first batch of a driver copy raised on a duplicate _id
\* while the source held a further document, which was not written.
C14_Witness ==
    /\ pc = "raised"
    /\ insertErrors = 1
    /\ inserts = 1
    /\ NotReached # {}
    /\ NotReached \cap tgtDocs = {}

\* C15: after an insert_many of the driver copy in which a document of the
\* batch violated the uniqueness of _id on the target, every document of
\* that batch that violated nothing is in the target.
C15_UnorderedBatchResilience ==
    (inserts > 0 /\ Range(lastBatch) \cap tgtBefore # {})
        => (Range(lastBatch) \ tgtBefore) \subseteq tgtDocs

\* C15 witness: the batch <<1, 2>> was inserted into a target that held
\* document 1 and not document 2; the insert raised and document 2 is there.
C15_Witness ==
    /\ lastBatch = <<1, 2>>
    /\ tgtBefore = {1}
    /\ insertErrors = 1
    /\ 2 \in tgtDocs

\* --------------------------------------------- claims on the verification

\* C16 as stated: checksum_match is computed for a source of exactly
\* CHECKSUM_THRESHOLD documents and null for one document more.
C16_ComputedAtThreshold ==
    vReport # NoReport
        => /\ vSource = CHECKSUM_THRESHOLD => vReport.checksum_match # "null"
           /\ vSource = CHECKSUM_THRESHOLD + 1 => vReport.checksum_match = "null"

\* C16, amended: checksum_match is computed (true or false) for a source of
\* fewer than CHECKSUM_THRESHOLD documents and null from CHECKSUM_THRESHOLD
\* documents on.
C16_ComputedBelowThreshold ==
    vReport # NoReport
        => /\ vReport.checksum_match \in {"true", "false", "null"}
           /\ vSource = CHECKSUM_THRESHOLD - 1 => vReport.checksum_match # "null"
           /\ vSource = CHECKSUM_THRESHOLD => vReport.checksum_match = "null"
           /\ vSource = CHECKSUM_THRESHOLD + 1 => vReport.checksum_match = "null"
           /\ vReport.checksum_match # "null" <=> vSource < CHECKSUM_THRESHOLD

\* C16 witness: a verification of a source of exactly CHECKSUM_THRESHOLD
\* documents and an identical target has returned, checksum_match null.
C16_Witness ==
    /\ vSource = CHECKSUM_THRESHOLD
    /\ vTarget = vSource
    /\ vDigestsEqual
    /\ vReport # NoReport
    /\ vReport.count_match
    /\ vReport.checksum_match = "null"

\* ------------------------------------------------ claims on storage delete

\* C18: of two delete calls in a row on the same path of a reachable storage
\* location, both return success, whether or not there was a file at the
\* path before the first.
C18_DeleteTwiceSucceeds ==
    \A i \in 1 .. Len(dLog) - 1 :
        (/\ dLog[i].path = dLog[i + 1].path
         /\ dLog[i].env = "ok"
         /\ dLog[i + 1].env = "ok")
            => dLog[i].result /\ dLog[i + 1].result

\* ------------------------------------------- claims on the settings manager

C20_FailureExitsNonZero ==
    (cExit >= 0 /\ cReported # "none") => cExit # 0

\* ------------------------------------- claims on the order of a copy's steps

\* C28: during one call of copy_collection_with_indexes the drop confirmation
\* is requested at most once and the target collection is dropped at most
\* once, also when the native method fails and the call falls back to the
\* driver copy.
C28_DropHandledOnce ==
    Len(asked) <= 1 /\ drops <= 1

\* C25: on the driver-copy path the drop of the target comes before every
\* index-creation attempt and these before the first insert: a step that
\* drops finds no index attempted and no batch inserted, a step that attempts
\* an index finds no batch inserted, and a step that inserts finds every
\* source index attempted.
C25_DriverStepOrder ==
    [][ /\ drops' # drops => (idxTried = {} /\ created = 0 /\ inserts = 0)
        /\ idxTried' # idxTried => inserts = 0
        /\ inserts' # inserts => (idxTodo = <<>> /\ idxTried = srcIdx) ]_vars

\* a driver copy that dropped the target, attempted an index and inserted
C25_Witness ==
    /\ pc = "returned"
    /\ result.method = "python"
    /\ drops > 0
    /\ idxTried # {}
    /\ inserts > 0

\* ---------------------------------- claims on the backup manager's connection

\* C29: when backup_database or restore_database has returned, on whatever
\* return path, the MongoDB connection the call opened is closed.
C29_ConnectionClosedOnReturn ==
    (bpc = "done" /\ bresult # NoBResult) => openConns = 0

\* ------------------------------------------- claims on a repeated copy

\* C22: copy_collection_with_indexes with drop_target and force, run twice
\* in a row on the same source and target, returns the same documents_copied
\* both times, and verify_copy reports count_match true after each run.
C22_DropAndCopyTwice ==
    runs = 2 =>
        /\ firstResult.documents_copied = result.documents_copied
        /\ countMatches = <<TRUE, TRUE>>

\* ------------------------------------------- claims on the selection parser

\* C23: for every selection and max_value, parse_collection_selection
\* returns a strictly increasing list of indices that all lie in
\* 0 .. max_value - 1.
C23_SortedIndicesInRange ==
    parseResult # NoParse =>
        /\ ~parseResult.raised
        /\ \A i \in 1 .. Len(parseResult.indices) :
             /\ parseResult.indices[i] \in 0 .. max_value - 1
             /\ i > 1 => parseResult.indices[i - 1] < parseResult.indices[i]

\* ------------------------------------------------- claims on the pipeline

\* C24: copy_with_mongodump returns only after both the dump process and the
\* restore process have exited.
C24_ReturnsAfterBothExit ==
    (ppc = "returned" /\ dump_process # "none") =>
        /\ dump_process = "exited"
        /\ restore_process = "exited"

\* the other half of C24: no interleaving leaves the call blocked forever
C24_CallReturns == <>(ppc = "returned")

\* ------------------------------- claims on the copies of several collections

\* the call is copy_multiple_collections with create_backup and drop_target
BackupAndDrop == mKind = "multiple" /\ create_backup /\ mDropTarget

\* C26: in copy_multiple_collections with create_backup and drop_target,
\* a step that drops or writes a target collection finds every listed
\* collection that existed in the target database copied into its backup
\* collection, and the steps of the copy leave the backup collections as
\* they are.
C26_BackupBeforeCopy ==
    [][ BackupAndDrop =>
          /\ targetColls' # targetColls =>
                \A c \in Range(collections) :
                    targetColls0[c] >= 0 => backups[c] = targetColls0[c]
          /\ mpc = "copy" => backups' = backups ]_vars

\* a listed collection with documents was backed up, then dropped and
\* rewritten
C26_Witness ==
    /\ BackupAndDrop
    /\ mpc = "returned"
    /\ \E c \in Range(collections) :
         /\ targetColls0[c] > 0
         /\ backups[c] = targetColls0[c]
         /\ targetColls[c] # targetColls0[c]

\* C30: in copy_entire_database with create_backup and drop_target and an
\* existing target database, the target database is dropped only after a
\* backup of it was created.
C30_DropOnlyAfterBackup ==
    ( /\ mKind = "entire"
      /\ create_backup
      /\ mDropTarget
      /\ \E c \in Colls : targetColls0[c] >= 0
      /\ dbDrops > 0 ) => backup_name = "archive"

\* ------------------------------------------- claims on the run of a task

\* C21: a saved copy task run with --force or with --yes requests no
\* interactive confirmation at any step of the run, the confirmations to
\* drop a target collection or the target database included.
C21_NoPromptWithForceOrYes ==
    (cMode = "task" /\ (cForce \/ cYes)) => prompts = <<>>

\* C27: run_copy_task on a task whose source_collection is a list of names
\* copies every named collection and returns success.
C27_ListTaskCopiesAll ==
    (tpc \in {"ended", "exited"} /\ taskSuccess # "none"
       /\ task_config.source_collection = "list") =>
        /\ taskSuccess = "True"
        /\ results = Named("list")

====
